---- MODULE Spec2Model ----
(***************************************************************************)
(* A model of the multi-database MCP server:                               *)
(*   - SecurityValidator (src/utils/security.py), a pure lexical gate;     *)
(*   - MultiDatabaseManager (src/database/connection.py), the registry     *)
(*     of live sessions and the per-engine execution dispatcher, called    *)
(*     one call at a time (Spec) and by concurrent callers (ConcSpec);     *)
(*   - the execute_query tool (src/tools/query_tools.py) in front of the   *)
(*     manager (ToolSpec);                                                 *)
(*   - the statements the schema tools (src/tools/schema_tools.py) build   *)
(*     and send through the gate (SafetySpec).                             *)
(*                                                                         *)
(* A statement text is a sequence of lexemes: maximal runs of word         *)
(* characters ([A-Za-z0-9_]), single whitespace characters and single      *)
(* punctuation characters.  Regular expressions of the source are          *)
(* translated to operators over such sequences.                            *)
(***************************************************************************)
EXTENDS Integers, Sequences, FiniteSets, TLC

VARIABLES
    query,        \* SafetySpec: the statement handed to the validator
    verdict,      \* SafetySpec: <<result of is_safe_query>>, <<>> before the call
    report,       \* SafetySpec: result of get_security_report
    connections,  \* MultiDatabaseManager.connections: id -> ConnectionInfo
    sessions,     \* engine side: session handle -> "open" | "closed"
    now,          \* time.time()
    call,         \* the last manager call that returned: operation, id, outcome
    inflight      \* ConcSpec: caller -> frame of the manager call it is in

vars == <<query, verdict, report, connections, sessions, now, call, inflight>>

-----------------------------------------------------------------------------
(* Lexemes *)

NL == "\n"

IsSpace(l) == l \in {" ", NL}

\* str.upper() on one lexeme: the lexemes of the model that hold lower-case
\* letters, with their upper-case image; every other lexeme is unchanged.
UpperTable ==
    [ select |-> "SELECT", Select |-> "SELECT", with |-> "WITH", show |-> "SHOW",
      from |-> "FROM", where |-> "WHERE", users |-> "USERS", logs |-> "LOGS",
      id |-> "ID", x |-> "X", t |-> "T", a |-> "A", b |-> "B",
      columns |-> "COLUMNS", table_name |-> "TABLE_NAME", tables |-> "TABLES",
      information_schema |-> "INFORMATION_SCHEMA",
      Information_Schema |-> "INFORMATION_SCHEMA",
      pg_catalog |-> "PG_CATALOG", pg_tables |-> "PG_TABLES",
      pg_class |-> "PG_CLASS", pg_namespace |-> "PG_NAMESPACE",
      pg_attribute |-> "PG_ATTRIBUTE", pg_stats |-> "PG_STATS",
      sqlite_master |-> "SQLITE_MASTER", mysql |-> "MYSQL",
      performance_schema |-> "PERFORMANCE_SCHEMA",
      insert |-> "INSERT", update |-> "UPDATE", delete |-> "DELETE",
      drop |-> "DROP", create |-> "CREATE", alter |-> "ALTER",
      truncate |-> "TRUNCATE", replace |-> "REPLACE", merge |-> "MERGE",
      call |-> "CALL", exec |-> "EXEC", grant |-> "GRANT", revoke |-> "REVOKE",
      set |-> "SET", declare |-> "DECLARE",
      Insert |-> "INSERT", Update |-> "UPDATE", Delete |-> "DELETE",
      Drop |-> "DROP", Create |-> "CREATE", Alter |-> "ALTER",
      Truncate |-> "TRUNCATE", Replace |-> "REPLACE", Merge |-> "MERGE",
      Call |-> "CALL", Exec |-> "EXEC", Grant |-> "GRANT", Revoke |-> "REVOKE",
      Set |-> "SET", Declare |-> "DECLARE",
      database |-> "DATABASE", user |-> "USER", password |-> "PASSWORD",
      pg_sleep |-> "PG_SLEEP", sleep |-> "SLEEP", waitfor |-> "WAITFOR",
      delay |-> "DELAY", union |-> "UNION", Union |-> "UNION", all |-> "ALL",
      xp_cmdshell |-> "XP_CMDSHELL", sp_executesql |-> "SP_EXECUTESQL",
      dbms_output |-> "DBMS_OUTPUT", sys |-> "SYS", _eval |-> "_EVAL",
      into |-> "INTO", Into |-> "INTO", outfile |-> "OUTFILE",
      dumpfile |-> "DUMPFILE", load_file |-> "LOAD_FILE",
      Load_File |-> "LOAD_FILE", master |-> "MASTER",
      openrowset |-> "OPENROWSET", opendatasource |-> "OPENDATASOURCE",
      search_path |-> "SEARCH_PATH", to |-> "TO", public |-> "PUBLIC",
      use |-> "USE", limit |-> "LIMIT", selected |-> "SELECTED",
      xp_ |-> "XP_", offset_col |-> "OFFSET_COL", name |-> "NAME",
      limits |-> "LIMITS",
      as |-> "AS", c |-> "C", comment |-> "COMMENT",
      data_length |-> "DATA_LENGTH", definition |-> "DEFINITION",
      index_length |-> "INDEX_LENGTH", n |-> "N",
      obj_description |-> "OBJ_DESCRIPTION", oid |-> "OID",
      pg_size_pretty |-> "PG_SIZE_PRETTY",
      pg_total_relation_size |-> "PG_TOTAL_RELATION_SIZE",
      relname |-> "RELNAME", relnamespace |-> "RELNAMESPACE", size |-> "SIZE",
      size_mb |-> "SIZE_MB", sql |-> "SQL", table |-> "TABLE",
      table_comment |-> "TABLE_COMMENT", table_schema |-> "TABLE_SCHEMA",
      table_type |-> "TABLE_TYPE", type |-> "TYPE", view |-> "VIEW",
      row_count |-> "ROW_COUNT",
      count |-> "COUNT", table_info |-> "TABLE_INFO", f |-> "F" ]

UpperLex(l) == IF l \in DOMAIN UpperTable THEN UpperTable[l] ELSE l

\* str.upper() on a text
Upper(s) == [i \in 1..Len(s) |-> UpperLex(s[i])]

\* The punctuation and whitespace lexemes; every other lexeme is a word (\w+).
Punctuation ==
    { " ", NL, "(", ")", ";", "-", "/", "*", "+", ".", ",", "=", "'", "<", ">" }

IsWord(l) == l \notin Punctuation

\* str.strip(): drop leading and trailing whitespace
RECURSIVE LStrip(_)
LStrip(s) == IF s # <<>> /\ IsSpace(Head(s)) THEN LStrip(Tail(s)) ELSE s

RECURSIVE RStrip(_)
RStrip(s) ==
    IF s # <<>> /\ IsSpace(s[Len(s)]) THEN RStrip(SubSeq(s, 1, Len(s) - 1)) ELSE s

Strip(s) == RStrip(LStrip(s))

\* len() of a text, in characters
RECURSIVE TextLen(_)
TextLen(s) == IF s = <<>> THEN 0 ELSE Len(Head(s)) + TextLen(Tail(s))

\* str.count('(')
RECURSIVE CountParens(_)
CountParens(s) ==
    IF s = <<>> THEN 0
    ELSE (IF Head(s) = "(" THEN 1 ELSE 0) + CountParens(Tail(s))

-----------------------------------------------------------------------------
(* Regular-expression primitives.  ic is re.IGNORECASE. *)

LexEq(ic, l, w) == IF ic THEN UpperLex(l) = UpperLex(w) ELSE l = w

\* \bw\b
HasWord(ic, s, w) == \E i \in 1..Len(s) : LexEq(ic, s[i], w)

\* all lexemes strictly between i and j are whitespace (\s* between them)
OnlySpace(s, i, j) == \A k \in (i + 1)..(j - 1) : IsSpace(s[k])

\* no line break strictly between i and j ('.' does not match a newline)
SameLine(s, i, j) == \A k \in (i + 1)..(j - 1) : s[k] # NL

\* \bw1\s+w2\b
HasWordPair(ic, s, w1, w2) ==
    \E i \in 1..Len(s) :
        /\ LexEq(ic, s[i], w1)
        /\ \E j \in (i + 2)..Len(s) :
               LexEq(ic, s[j], w2) /\ OnlySpace(s, i, j)

\* Pairs <<w, l>> of the model's words where w is a proper prefix of l (a
\* pattern without a closing \b, or str.startswith, matches inside l).
PrefixPairs ==
    { <<"SELECT", "SELECTED">>, <<"select", "selected">>,
      <<"DESC", "DESCRIBE">>, <<"WITH", "WITHOUT">>,
      <<"XP_", "XP_CMDSHELL">>, <<"xp_", "xp_cmdshell">> }

\* the lexeme l starts with the word w
StartsWithWord(ic, l, w) ==
    \/ LexEq(ic, l, w)
    \/ (IF ic THEN <<UpperLex(w), UpperLex(l)>> ELSE <<w, l>>) \in PrefixPairs

\* Pairs <<w, l>> where w occurs inside l / at the end of l
InfixPairs == PrefixPairs \cup { <<"INTO", "POINTOUT">> }

SuffixPairs == { <<"FROM", "WHEREFROM">> }

ContainsWord(ic, l, w) ==
    \/ LexEq(ic, l, w)
    \/ (IF ic THEN <<UpperLex(w), UpperLex(l)>> ELSE <<w, l>>) \in InfixPairs

EndsWithWord(ic, l, w) ==
    \/ LexEq(ic, l, w)
    \/ (IF ic THEN <<UpperLex(w), UpperLex(l)>> ELSE <<w, l>>) \in SuffixPairs

\* ;\s*\w+
MultiStatement(s) ==
    \E i \in 1..Len(s) :
        /\ s[i] = ";"
        /\ \E j \in (i + 1)..Len(s) : IsWord(s[j]) /\ OnlySpace(s, i, j)

\* mutant: the comment marker must be followed by comment text
InlineComment_NeedsText(s) ==
    \E i \in 1..(Len(s) - 2) : s[i] = "-" /\ s[i + 1] = "-"

\* --\s*[^\r\n]*
InlineComment(s) == \E i \in 1..(Len(s) - 1) : s[i] = "-" /\ s[i + 1] = "-"

\* /\*.*?\*/  with re.DOTALL
BlockComment(s) ==
    \E i \in 1..(Len(s) - 3) :
        /\ s[i] = "/" /\ s[i + 1] = "*"
        /\ \E j \in (i + 2)..(Len(s) - 1) : s[j] = "*" /\ s[j + 1] = "/"

\* \bunion\s+all\s+select.*\bfrom\s+information_schema\b
UnionAllSelectInfoSchema(ic, s) ==
    \E i \in 1..Len(s) :
      /\ LexEq(ic, s[i], "union")
      /\ \E j \in (i + 2)..Len(s) :
        /\ LexEq(ic, s[j], "all") /\ OnlySpace(s, i, j)
        /\ \E k \in (j + 2)..Len(s) :
          /\ StartsWithWord(ic, s[k], "select") /\ OnlySpace(s, j, k)
          /\ \E m \in (k + 1)..Len(s) :
            /\ LexEq(ic, s[m], "from") /\ SameLine(s, k, m)
            /\ \E n \in (m + 2)..Len(s) :
                 LexEq(ic, s[n], "information_schema") /\ OnlySpace(s, m, n)

\* \bunion\s+select.*\bpassword\b
UnionSelectPassword(ic, s) ==
    \E i \in 1..Len(s) :
      /\ LexEq(ic, s[i], "union")
      /\ \E j \in (i + 2)..Len(s) :
        /\ StartsWithWord(ic, s[j], "select") /\ OnlySpace(s, i, j)
        /\ \E k \in (j + 1)..Len(s) :
             LexEq(ic, s[k], "password") /\ SameLine(s, j, k)

\* \bunion\s+select.*\buser\b.*\bfrom\b
UnionSelectUserFrom(ic, s) ==
    \E i \in 1..Len(s) :
      /\ LexEq(ic, s[i], "union")
      /\ \E j \in (i + 2)..Len(s) :
        /\ StartsWithWord(ic, s[j], "select") /\ OnlySpace(s, i, j)
        /\ \E k \in (j + 1)..Len(s) :
          /\ LexEq(ic, s[k], "user") /\ SameLine(s, j, k)
          /\ \E m \in (k + 1)..Len(s) :
               LexEq(ic, s[m], "from") /\ SameLine(s, k, m)

\* \bsys\._eval\b
SysEval(ic, s) ==
    \E i \in 1..(Len(s) - 2) :
        LexEq(ic, s[i], "sys") /\ s[i + 1] = "." /\ LexEq(ic, s[i + 2], "_eval")

\* \bselect.*into.*from\b
SelectIntoFrom(ic, s) ==
    \E i \in 1..Len(s) :
      /\ StartsWithWord(ic, s[i], "select")
      /\ \E j \in (i + 1)..Len(s) :
        /\ ContainsWord(ic, s[j], "into") /\ SameLine(s, i, j)
        /\ \E k \in (j + 1)..Len(s) :
             EndsWithWord(ic, s[k], "from") /\ SameLine(s, j, k)

\* \bmaster\.\.xp_
MasterXp(ic, s) ==
    \E i \in 1..(Len(s) - 3) :
        /\ LexEq(ic, s[i], "master") /\ s[i + 1] = "." /\ s[i + 2] = "."
        /\ StartsWithWord(ic, s[i + 3], "xp_")

-----------------------------------------------------------------------------
(* SecurityValidator: the policy *)

allowed_operations ==
    {"SELECT", "SHOW", "DESCRIBE", "DESC", "EXPLAIN", "WITH", "PRAGMA"}

dangerous_operations ==
    {"INSERT", "UPDATE", "DELETE", "DROP", "CREATE", "ALTER", "TRUNCATE",
     "REPLACE", "MERGE", "CALL", "EXEC", "GRANT", "REVOKE", "SET", "DECLARE"}

MaxQueryLength == 10000
NestingLimit == 3
MetadataNestingLimit == 2

\* security_patterns, in list order: the source text of each pattern
security_patterns ==
    << "\\bdrop\\s+database\\b", "\\bdrop\\s+user\\b", "\\bcreate\\s+user\\b",
       "\\balter\\s+user\\b", "\\bgrant\\b", "\\brevoke\\b", "\\bpg_sleep\\b",
       "\\bsleep\\b", "\\bwaitfor\\b", "\\bdelay\\b", ";\\s*\\w+",
       "--\\s*[^\\r\\n]*", "/\\*.*?\\*/",
       "\\bunion\\s+all\\s+select.*\\bfrom\\s+information_schema\\b",
       "\\bunion\\s+select.*\\bpassword\\b",
       "\\bunion\\s+select.*\\buser\\b.*\\bfrom\\b",
       "\\bxp_cmdshell\\b", "\\bsp_executesql\\b", "\\bdbms_output\\b",
       "\\bsys\\._eval\\b", "\\binto\\s+outfile\\b", "\\binto\\s+dumpfile\\b",
       "\\bload_file\\b", "\\bselect.*into.*from\\b", "\\bmaster\\.\\.xp_",
       "\\bopenrowset\\b", "\\bopendatasource\\b" >>

\* security_patterns[i].search(s); every pattern is compiled with re.IGNORECASE
SecurityPatternSearch(i, s) ==
    CASE i = 1 -> HasWordPair(TRUE, s, "drop", "database")
      [] i = 2 -> HasWordPair(TRUE, s, "drop", "user")
      [] i = 3 -> HasWordPair(TRUE, s, "create", "user")
      [] i = 4 -> HasWordPair(TRUE, s, "alter", "user")
      [] i = 5 -> HasWord(TRUE, s, "grant")
      [] i = 6 -> HasWord(TRUE, s, "revoke")
      [] i = 7 -> HasWord(TRUE, s, "pg_sleep")
      [] i = 8 -> HasWord(TRUE, s, "sleep")
      [] i = 9 -> HasWord(TRUE, s, "waitfor")
      [] i = 10 -> HasWord(TRUE, s, "delay")
      [] i = 11 -> MultiStatement(s)
      [] i = 12 -> InlineComment(s)
      [] i = 13 -> BlockComment(s)
      [] i = 14 -> UnionAllSelectInfoSchema(TRUE, s)
      [] i = 15 -> UnionSelectPassword(TRUE, s)
      [] i = 16 -> UnionSelectUserFrom(TRUE, s)
      [] i = 17 -> HasWord(TRUE, s, "xp_cmdshell")
      [] i = 18 -> HasWord(TRUE, s, "sp_executesql")
      [] i = 19 -> HasWord(TRUE, s, "dbms_output")
      [] i = 20 -> SysEval(TRUE, s)
      [] i = 21 -> HasWordPair(TRUE, s, "into", "outfile")
      [] i = 22 -> HasWordPair(TRUE, s, "into", "dumpfile")
      [] i = 23 -> HasWord(TRUE, s, "load_file")
      [] i = 24 -> SelectIntoFrom(TRUE, s)
      [] i = 25 -> MasterXp(TRUE, s)
      [] i = 26 -> HasWord(TRUE, s, "openrowset")
      [] i = 27 -> HasWord(TRUE, s, "opendatasource")

\* metadata_patterns: each is \bname\b with re.IGNORECASE
metadata_patterns ==
    {"information_schema", "pg_catalog", "pg_tables", "pg_class",
     "pg_namespace", "pg_attribute", "pg_stats", "sqlite_master", "mysql",
     "performance_schema"}

-----------------------------------------------------------------------------
(* SecurityValidator: the checks.  A query is [text, pad]: the text followed
   by pad trailing blanks. *)

QueryLen(q) == TextLen(q.text) + q.pad

\* not query or not query.strip()
IsEmptyQuery(q) == Strip(q.text) = <<>>

\* query.strip().upper()
QueryUpper(q) == Upper(Strip(q.text))

\* any(query_upper.startswith(op) for op in self.allowed_operations)
StartsWithAllowed(u) ==
    /\ u # <<>>
    /\ \E op \in allowed_operations : StartsWithWord(FALSE, u[1], op)

\* re.search(pattern, query_upper) for the four file_patterns, which are
\* written in lower case and searched without re.IGNORECASE
_contains_file_operations(u) ==
    \/ HasWordPair(FALSE, u, "into", "outfile")
    \/ HasWordPair(FALSE, u, "into", "dumpfile")
    \/ HasWord(FALSE, u, "load_file")
    \/ SelectIntoFrom(FALSE, u)

\* mutant: the denied verbs are looked for at the start of the statement only
DangerousMatches_LeadingOnly(u) ==
    {op \in dangerous_operations : u # <<>> /\ StartsWithWord(TRUE, u[1], op)}

\* the dangerous_ops_patterns that match
DangerousMatches(u) == {op \in dangerous_operations : HasWord(TRUE, u, op)}

_contains_dangerous_operations(u) == DangerousMatches(u) # {}

\* index of the first security pattern that matches, 0 when none does
FirstSecurityPattern(u) ==
    LET hits == {i \in 1..Len(security_patterns) : SecurityPatternSearch(i, u)}
    IN  IF hits = {} THEN 0 ELSE CHOOSE i \in hits : \A j \in hits : i <= j

_contains_injection_patterns(u) == FirstSecurityPattern(u) # 0

_contains_metadata_access(u) == \E w \in metadata_patterns : HasWord(TRUE, u, w)

\* re.search(r'\bunion\s+.*\binformation_schema\b', query_upper)
UnionInfoSchema(ic, s) ==
    \E i \in 1..Len(s) :
      /\ LexEq(ic, s[i], "union")
      /\ \E j \in (i + 2)..Len(s) :
        /\ OnlySpace(s, i, j)
        /\ \E k \in j..Len(s) :
             LexEq(ic, s[k], "information_schema") /\ SameLine(s, j - 1, k)

\* mutant: the metadata threshold is exclusive
_validate_metadata_access_Exclusive(u) ==
    IF _contains_file_operations(u) THEN FALSE
    ELSE IF UnionInfoSchema(FALSE, u) THEN FALSE
    ELSE CountParens(u) < MetadataNestingLimit

_validate_metadata_access(u) ==
    IF _contains_file_operations(u) THEN FALSE
    ELSE IF UnionInfoSchema(FALSE, u) THEN FALSE
    ELSE CountParens(u) <= MetadataNestingLimit

\* mutant: the cap is exclusive
_has_excessive_nesting_Exclusive(u) == CountParens(u) >= NestingLimit

_has_excessive_nesting(u) == CountParens(u) > NestingLimit

is_safe_query(q) ==
    IF IsEmptyQuery(q) THEN FALSE
    ELSE LET u == QueryUpper(q) IN
        IF ~StartsWithAllowed(u) THEN FALSE
        ELSE IF QueryLen(q) > MaxQueryLength THEN FALSE
        ELSE IF _contains_file_operations(u) THEN FALSE
        ELSE IF _contains_dangerous_operations(u) THEN FALSE
        ELSE IF _contains_injection_patterns(u) THEN FALSE
        ELSE IF _contains_metadata_access(u) THEN _validate_metadata_access(u)
        ELSE IF _has_excessive_nesting(u) THEN FALSE
        ELSE TRUE

\* mutant: the report carries the verdict of is_safe_query and lists nothing
get_security_report_VerdictOnly(q, first) ==
    [ is_safe |-> is_safe_query(q),
      checks |-> [ starts_with_allowed_operation |-> is_safe_query(q),
                   no_dangerous_operations |-> first = "none",
                   no_file_operations |-> TRUE,
                   no_injection_patterns |-> TRUE,
                   acceptable_nesting |-> TRUE,
                   legitimate_metadata_access |-> TRUE ],
      violations |-> <<>> ]

\* get_security_report(query); first is the dangerous_ops_patterns entry the
\* loop meets first ("none" when none matches): the patterns are built by
\* iterating a Python set, whose order is not fixed.
get_security_report(q, first) ==
    IF IsEmptyQuery(q) THEN
        [ is_safe |-> FALSE,
          checks |-> [ starts_with_allowed_operation |-> FALSE,
                       no_dangerous_operations |-> TRUE,
                       no_file_operations |-> TRUE,
                       no_injection_patterns |-> TRUE,
                       acceptable_nesting |-> TRUE,
                       legitimate_metadata_access |-> TRUE ],
          violations |-> << "Empty query" >> ]
    ELSE
        LET u == QueryUpper(q)
            allowed == StartsWithAllowed(u)
            dangerous == first # "none"
            fileops == _contains_file_operations(u)
            inj == FirstSecurityPattern(u)
            nesting == _has_excessive_nesting(u)
            metadata == _contains_metadata_access(u) /\ ~_validate_metadata_access(u)
            checks == [ starts_with_allowed_operation |-> allowed,
                        no_dangerous_operations |-> ~dangerous,
                        no_file_operations |-> ~fileops,
                        no_injection_patterns |-> (inj = 0),
                        acceptable_nesting |-> ~nesting,
                        legitimate_metadata_access |-> ~metadata ]
        IN  [ is_safe |-> /\ checks.starts_with_allowed_operation
                          /\ checks.no_dangerous_operations
                          /\ checks.no_file_operations
                          /\ checks.no_injection_patterns
                          /\ checks.acceptable_nesting
                          /\ checks.legitimate_metadata_access,
              checks |-> checks,
              violations |->
                  (IF allowed THEN <<>>
                   ELSE << "Query doesn't start with allowed operation" >>)
                  \o (IF dangerous
                      THEN << "Contains dangerous operation: \\b" \o first \o "\\b" >>
                      ELSE <<>>)
                  \o (IF fileops THEN << "Contains file operations" >> ELSE <<>>)
                  \o (IF inj # 0
                      THEN << "Security risk: " \o security_patterns[inj] >>
                      ELSE <<>>)
                  \o (IF nesting THEN << "Excessive query nesting" >> ELSE <<>>)
                  \o (IF metadata
                      THEN << "Suspicious metadata access pattern" >>
                      ELSE <<>>) ]

\* the entries the dangerous-operations loop of the report can meet first
FirstDangerous(q) ==
    IF IsEmptyQuery(q) \/ DangerousMatches(QueryUpper(q)) = {} THEN {"none"}
    ELSE DangerousMatches(QueryUpper(q))

-----------------------------------------------------------------------------
(* The statements the schema tools build and pass to execute_query *)

\* n blanks of indentation
RECURSIVE Blanks(_)
Blanks(n) == IF n = 0 THEN <<>> ELSE <<" ">> \o Blanks(n - 1)

\* explore_schema_advanced: the "comprehensive schema query" of each engine
\* kind, as the f-string of the source spells it
explore_schema_advanced_query(db_type, schema_name) ==
    CASE db_type = "postgresql" ->
        <<NL>>
        \o Blanks(16) \o <<"SELECT", " ", NL>>
        \o Blanks(20) \o <<"t", ".", "table_name", ",", NL>>
        \o Blanks(20) \o <<"t", ".", "table_type", ",", NL>>
        \o Blanks(20) \o <<"obj_description", "(", "c", ".", "oid", ",", " ", "'", "pg_class", "'", ")", " ", "as", " ", "comment", ",", NL>>
        \o Blanks(20) \o <<"pg_size_pretty", "(", "pg_total_relation_size", "(", "c", ".", "oid", ")", ")", " ", "as", " ", "size", NL>>
        \o Blanks(16) \o <<"FROM", " ", "information_schema", ".", "tables", " ", "t", NL>>
        \o Blanks(16) \o <<"LEFT", " ", "JOIN", " ", "pg_class", " ", "c", " ", "ON", " ", "c", ".", "relname", " ", "=", " ", "t", ".", "table_name", NL>>
        \o Blanks(16) \o <<"LEFT", " ", "JOIN", " ", "pg_namespace", " ", "n", " ", "ON", " ", "n", ".", "oid", " ", "=", " ", "c", ".", "relnamespace", NL>>
        \o Blanks(16) \o <<"WHERE", " ", "t", ".", "table_schema", " ", "=", " ", "'">> \o schema_name \o <<"'", NL>>
        \o Blanks(16) \o <<"ORDER", " ", "BY", " ", "t", ".", "table_type", ",", " ", "t", ".", "table_name", NL>>
        \o Blanks(16)
      [] db_type = "mysql" ->
        <<NL>>
        \o Blanks(16) \o <<"SELECT", " ", NL>>
        \o Blanks(20) \o <<"table_name", ",", NL>>
        \o Blanks(20) \o <<"table_type", ",", NL>>
        \o Blanks(20) \o <<"table_comment", " ", "as", " ", "comment", ",", NL>>
        \o Blanks(20) \o <<"ROUND", "(", "(", "(", "data_length", " ", "+", " ", "index_length", ")", " ", "/", " ", "1024", " ", "/", " ", "1024", ")", ",", " ", "2", ")", " ", "as", " ", "size_mb", NL>>
        \o Blanks(16) \o <<"FROM", " ", "information_schema", ".", "tables", " ", NL>>
        \o Blanks(16) \o <<"WHERE", " ", "table_schema", " ", "=", " ", "'">> \o schema_name \o <<"'", NL>>
        \o Blanks(16) \o <<"ORDER", " ", "BY", " ", "table_type", ",", " ", "table_name", NL>>
        \o Blanks(16)
      [] db_type = "sqlite" ->
        <<NL>>
        \o Blanks(16) \o <<"SELECT", " ", NL>>
        \o Blanks(20) \o <<"name", " ", "as", " ", "table_name", ",", NL>>
        \o Blanks(20) \o <<"type", " ", "as", " ", "table_type", ",", NL>>
        \o Blanks(20) \o <<"sql", " ", "as", " ", "definition", NL>>
        \o Blanks(16) \o <<"FROM", " ", "sqlite_master", " ", NL>>
        \o Blanks(16) \o <<"WHERE", " ", "type", " ", "IN", " ", "(", "'", "table", "'", ",", " ", "'", "view", "'", ")", NL>>
        \o Blanks(16) \o <<"ORDER", " ", "BY", " ", "type", ",", " ", "name", NL>>
        \o Blanks(16)

\* _get_table_stats_query: the same statement for the three SQL engine kinds
_get_table_stats_query(db_type, table_name) ==
    <<"SELECT", " ", "COUNT", "(", "*", ")", " ", "as", " ", "row_count", " ",
      "FROM", " ">> \o table_name

\* get_table_info and _get_column_count_query on SQLite
PragmaTableInfo(table_name) ==
    <<"PRAGMA", " ", "table_info", "(">> \o table_name \o <<")">>

SqlKinds == {"postgresql", "mysql", "sqlite"}

\* a schema name and a table name that validate_query_params and
\* validate_table_name accept
SchemaNames == { <<"public">> }

TableNames == { <<"users">> }

IntrospectionStatements ==
    { [text |-> explore_schema_advanced_query(k, schema_name), pad |-> 0] :
          k \in SqlKinds, schema_name \in SchemaNames }
    \cup { [text |-> _get_table_stats_query(k, table_name), pad |-> 0] :
              k \in SqlKinds, table_name \in TableNames }
    \cup { [text |-> PragmaTableInfo(table_name), pad |-> 0] :
              table_name \in TableNames }

-----------------------------------------------------------------------------
(* Statements given to the validator *)

MaxFrags == 2
MaxWrap == 4

\* Join fragments with the separator sep; an empty separator is used only
\* where it does not fuse two words into one.
Glue(sep, a, b) ==
    IF a = <<>> THEN b
    ELSE IF b = <<>> THEN a
    ELSE IF sep = "" /\ ~(IsWord(a[Len(a)]) /\ IsWord(b[1])) THEN a \o b
    ELSE a \o << (IF sep = "" THEN " " ELSE sep) >> \o b

RECURSIVE Join(_, _)
Join(sep, frags) ==
    IF frags = <<>> THEN <<>>
    ELSE Glue(sep, Head(frags), Join(sep, Tail(frags)))

Separators == {" ", NL, ""}

LeadFragments ==
    { <<"SELECT">>, <<"select">>, <<"WITH">>, <<"DELETE">>, <<" ", "SELECT">> }

BodyFragments ==
    { <<"x">>, <<"FROM">>, <<"(">>, <<";">>,
      <<"-", "-">>, <<"/", "*">>, <<"*", "/">>,
      <<"information_schema", ".", "columns">>,
      <<"Delete">>, <<"offset_col">>, <<"UNION">>, <<"Into">>, <<"OUTFILE">> }

RECURSIVE FragSeqs(_)
FragSeqs(n) ==
    IF n = 0 THEN { <<>> }
    ELSE LET shorter == FragSeqs(n - 1)
         IN  shorter \cup
             { Append(fs, f) : fs \in {g \in shorter : Len(g) = n - 1},
                               f \in BodyFragments }

FreeTexts ==
    { Join(sep, <<lead>> \o body) :
        sep \in Separators, lead \in LeadFragments, body \in FragSeqs(MaxFrags) }

\* every denied verb in three letter cases, in a few contexts
VerbSpellings ==
    dangerous_operations
    \cup {l \in DOMAIN UpperTable : UpperTable[l] \in dangerous_operations}

VerbTexts ==
    { Join(sep, <<lead>> \o pre \o <<<<v>>>> \o post) :
        sep \in Separators, lead \in {<<"SELECT">>, <<"with">>, <<"DELETE">>},
        pre \in {<<>>, << <<"(">> >>, << <<"x">>, <<"FROM">> >>},
        v \in VerbSpellings,
        post \in {<<>>, << <<")">>, <<"x">> >>} }

\* SELECT * FROM ( s ) a
Wrap(s) == <<"SELECT", " ", "*", " ", "FROM", " ", "(">> \o s \o <<")", " ", "a">>

RECURSIVE WrapN(_, _)
WrapN(s, n) == IF n = 0 THEN s ELSE Wrap(WrapN(s, n - 1))

\* SELECT id FROM users WHERE id = 1
ExSelectUsers ==
    <<"SELECT", " ", "id", " ", "FROM", " ", "users", " ", "WHERE", " ", "id",
      " ", "=", " ", "1">>

\* SELECT * FROM (DELETE FROM logs RETURNING *) x
ExDeleteSubquery ==
    <<"SELECT", " ", "*", " ", "FROM", " ", "(", "DELETE", " ", "FROM", " ",
      "logs", " ", "RETURNING", " ", "*", ")", " ", "x">>

\* SELECT 1 --; DROP TABLE users
ExCommentSmuggle ==
    <<"SELECT", " ", "1", " ", "-", "-", ";", " ", "DROP", " ", "TABLE", " ",
      "users">>

\* SELECT * FROM information_schema.columns WHERE table_name='t'
ExMetadata ==
    <<"SELECT", " ", "*", " ", "FROM", " ", "information_schema", ".",
      "columns", " ", "WHERE", " ", "table_name", "=", "'", "t", "'">>

ExampleTexts ==
    { <<>>, <<" ">>, <<"SELECTED", " ", "x">>, <<"(", "SELECT", " ", "1", ")">>,
      ExSelectUsers, ExDeleteSubquery, ExCommentSmuggle, ExMetadata,
      <<"SELECT", " ", "1", " ", "-", "-", " ", "x">>,
      <<"SELECT", " ", "1", " ", "/", "*", " ", "x", " ", "*", "/">>,
      <<"SELECT", " ", "name", " ", "FROM", " ", "sqlite_master">>,
      <<"SELECT", " ", "a", " ", "FROM", " ", "t", " ", "UNION", " ", "SELECT",
        " ", "table_name", " ", "FROM", " ", "information_schema", ".", "tables">>,
      <<"SELECT", " ", "a", " ", "INTO", " ", "OUTFILE", " ", "'", "f", "'",
        " ", "FROM", " ", "t">>,
      <<"SELECT", " ", "LOAD_FILE", "(", "'", "f", "'", ")">>,
      <<"SELECT", " ", "count", "(", "*", ")", " ", "FROM", " ", "t">>,
      <<"SHOW", " ", "TABLES">>,
      <<"PRAGMA", " ", "table_info", "(", "t", ")">> }

WrappedTexts == { WrapN(s, n) : s \in ExampleTexts, n \in 0..MaxWrap }

\* a query of exactly the maximum length, and one character longer
Padded(s) ==
    { [text |-> s, pad |-> p] :
        p \in {0} \cup (IF TextLen(s) <= MaxQueryLength
                        THEN {MaxQueryLength - TextLen(s),
                              MaxQueryLength + 1 - TextLen(s)}
                        ELSE {}) }

Statements ==
    { [text |-> s, pad |-> 0] : s \in FreeTexts \cup VerbTexts }
    \cup UNION { Padded(s) : s \in WrappedTexts }
    \cup IntrospectionStatements

NoVerdict == <<>>

NoReport == [ is_safe |-> FALSE, checks |-> <<>>, violations |-> <<"not run">> ]

-----------------------------------------------------------------------------
(* SafetySpec: the validator applied to one statement, one call per behaviour *)

NoCall == [op |-> "none", id |-> "", result |-> "", count |-> 0, engine |-> <<>>]

SafetyInit ==
    /\ query \in Statements
    /\ verdict = NoVerdict
    /\ report = NoReport
    /\ connections = <<>>
    /\ sessions = <<>>
    /\ now = 0
    /\ call = NoCall
    /\ inflight = <<>>

\* SecurityValidator.is_safe_query(query)
IsSafeQuery ==
    /\ verdict = NoVerdict /\ report = NoReport
    /\ verdict' = <<is_safe_query(query)>>
    /\ UNCHANGED <<query, report, connections, sessions, now, call, inflight>>

\* SecurityValidator.get_security_report(query)
GetSecurityReport ==
    /\ verdict = NoVerdict /\ report = NoReport
    /\ \E first \in FirstDangerous(query) :
           report' = get_security_report(query, first)
    /\ UNCHANGED <<query, verdict, connections, sessions, now, call, inflight>>

SafetyNext == IsSafeQuery \/ GetSecurityReport

SafetySpec == SafetyInit /\ [][SafetyNext]_vars

-----------------------------------------------------------------------------
(* DatabaseConfig and CredentialValidator *)

MaxConnections == 1
MaxSessions == MaxConnections + 1
MaxTime == 1
MaxQueries == 1

\* db_type.lower(), on the engine kinds of the model
DbTypeLower(db_type) == IF db_type = "PostgreSQL" THEN "postgresql" ELSE db_type

\* DatabaseConfig.validate_db_type
validate_db_type(db_type) ==
    DbTypeLower(db_type) \in {"postgresql", "mysql", "sqlite", "mongodb"}

\* DatabaseConfig.get_required_credentials
get_required_credentials(db_type) ==
    IF DbTypeLower(db_type) = "sqlite" THEN {"database_path"}
    ELSE IF DbTypeLower(db_type) \in {"postgresql", "mysql", "mongodb"}
         THEN {"username", "password", "database"}
         ELSE {}

\* CredentialValidator._validate_host, on the hosts of the model: the
\* loopback aliases and host names pass, a raw IP address does not
_validate_host(host) == host \in {"localhost", "db.example.com"}

\* CredentialValidator._validate_username, on the principals of the model
_validate_username(username) == username \in {"alice", "bob"}

\* CredentialValidator._validate_password: only emptiness, length and
\* control characters are looked at
_validate_password(password) == password \in {"pw1", "pw2"}

\* CredentialValidator._validate_database_name: "postgres" is a system database
_validate_database_name(database) == database \in {"app", "app2"}

\* CredentialValidator._is_suspicious_path
_is_suspicious_path(path) == path \in {"/etc/passwd", "../x.db"}

\* CredentialValidator._validate_sqlite_credentials; the directory /tmp exists
_validate_sqlite_credentials(req) ==
    /\ req.database_path # ""
    /\ ~_is_suspicious_path(req.database_path)
    /\ req.database_path \in {"/tmp/a.db", "/tmp/b.db"}

_validate_network_db_credentials(req) ==
    /\ _validate_host(req.host)
    /\ _validate_username(req.username)
    /\ _validate_password(req.password)
    /\ _validate_database_name(req.database)

validate_credentials(req) ==
    /\ validate_db_type(req.db_type)
    /\ \A field \in get_required_credentials(req.db_type) : req[field] # ""
    /\ IF req.db_type = "sqlite"
       THEN _validate_sqlite_credentials(req)
       ELSE _validate_network_db_credentials(req)

\* DatabaseConfig.get_default_port; 0 stands for None
get_default_port(db_type) ==
    CASE DbTypeLower(db_type) = "postgresql" -> 5432
      [] DbTypeLower(db_type) = "mysql" -> 3306
      [] DbTypeLower(db_type) = "mongodb" -> 27017
      [] OTHER -> 0

-----------------------------------------------------------------------------
(* MultiDatabaseManager *)

Req(db_type, host, port, username, password, database, database_path) ==
    [ db_type |-> db_type, host |-> host, port |-> port, username |-> username,
      password |-> password, database |-> database,
      database_path |-> database_path ]

\* the connect requests of the model
Requests ==
    { Req("postgresql", "localhost", 0, "alice", "pw1", "app", ""),
      Req("postgresql", "localhost", 0, "alice", "pw2", "app", ""),
      Req("mysql", "localhost", 0, "alice", "pw1", "app", ""),
      Req("sqlite", "localhost", 0, "", "", "", "/tmp/a.db"),
      Req("sqlite", "localhost", 0, "", "", "", "/tmp/b.db"),
      Req("mongodb", "db.example.com", 0, "bob", "pw1", "app2", ""),
      Req("oracle", "localhost", 0, "alice", "pw1", "app", ""),
      Req("postgresql", "localhost", 0, "alice", "", "app", ""),
      Req("postgresql", "localhost", 0, "alice", "pw1", "postgres", ""),
      Req("postgresql", "10.0.0.5", 0, "alice", "pw1", "app", ""),
      Req("postgresql", "localhost", 0, "select_user", "pw1", "app", ""),
      Req("postgresql", "localhost", 0, "alice", "pw1", "app;x", ""),
      Req("sqlite", "localhost", 0, "", "", "", "/etc/passwd"),
      Req("PostgreSQL", "localhost", 0, "alice", "pw1", "app", "") }

\* _generate_connection_id: the key the MD5 digest is taken of (the digest
\* itself is taken to be injective)
_generate_connection_id(req) ==
    req.db_type \o ":" \o req.host \o ":" \o req.username \o ":" \o req.database

\* self.credential_validator.validate_credentials and
\* self._generate_connection_id, tabulated over the connect requests
credential_validator == [r \in Requests |-> validate_credentials(r)]

connection_id_of == [r \in Requests |-> _generate_connection_id(r)]

\* the ids callers pass to execute_query and disconnect: those connect can
\* hand out, and one that no connect ever returns
ConnectionIds ==
    { _generate_connection_id(r) :
          r \in { v \in Requests : /\ validate_credentials(v)
                                   /\ v.db_type = DbTypeLower(v.db_type) } }
        \cup { "0" }

\* a variant of _validate_connection_request that does not consult the
\* CredentialValidator
_validate_connection_request_TypeOnly(req) ==
    IF ~validate_db_type(req.db_type) THEN "unsupported_type"
    ELSE IF Cardinality(DOMAIN connections) >= MaxConnections THEN "capacity"
    ELSE "ok"

\* a variant of _validate_connection_request whose capacity check lets a
\* full registry take one more
_validate_connection_request_Exclusive(req) ==
    IF ~validate_db_type(req.db_type) THEN "unsupported_type"
    ELSE IF ~credential_validator[req] THEN "invalid_credentials"
    ELSE IF Cardinality(DOMAIN connections) > MaxConnections THEN "capacity"
    ELSE "ok"

\* _validate_connection_request: "ok" or the error it raises
_validate_connection_request(req) ==
    IF ~validate_db_type(req.db_type) THEN "unsupported_type"
    ELSE IF ~credential_validator[req] THEN "invalid_credentials"
    ELSE IF Cardinality(DOMAIN connections) >= MaxConnections THEN "capacity"
    ELSE "ok"

\* ConnectionInfo.__init__; created_at, which is written here and only read
\* back by to_dict, is carried by last_used until the first statement
ConnectionInfo(id, req, port, created_at, handle) ==
    [ connection_id |-> id, db_type |-> req.db_type, host |-> req.host,
      port |-> port, database |-> req.database,
      connection |-> handle, last_used |-> created_at, query_count |-> 0 ]

Raise(op, id, error) ==
    [op |-> op, id |-> id, result |-> error, count |-> 0, engine |-> <<>>]

Return(op, id, result, engine) ==
    [op |-> op, id |-> id, result |-> result, count |-> 0, engine |-> engine]

\* one invocation of the driver on a session
EngineCall(handle, api, statement) ==
    [handle |-> handle, api |-> api, statement |-> statement]

\* how the dispatch of connect_database on db_type can end: the _connect_*
\* helper of the engine kind returns a session, or it raises (the client that
\* _connect_mongodb has created when its ping raises is not kept track of);
\* for any other string there is no helper to call
AdapterOutcomes(db_type) ==
    IF db_type \in {"postgresql", "mysql", "sqlite", "mongodb"}
    THEN {"session", "raises"}
    ELSE {"unsupported"}

\* the driver's connect, called by a _connect_* helper with the host, the port
\* and the credentials of the request; 0 is no session yet
ConnectCall(req) == EngineCall(0, "connect", req)

\* raise ValueError(f"Database connection failed: ...") after the driver's
\* connect has raised
ConnectionFailed(id, req) ==
    [Raise("connect", id, "connection_failed") EXCEPT !.engine = <<ConnectCall(req)>>]

\* a variant of connect_database that keeps the record of a connect whose
\* driver call raised
connect_database_KeepsFailed(req, adapter) ==
    LET checked == _validate_connection_request(req)
        port == IF req.port = 0 THEN get_default_port(req.db_type) ELSE req.port
        id == connection_id_of[req]
        handle == Len(sessions) + 1
    IN  /\ UNCHANGED <<query, verdict, report, now, inflight>>
        /\ IF checked # "ok" THEN
               /\ call' = Raise("connect", "", checked)
               /\ UNCHANGED <<connections, sessions>>
           ELSE IF id \in DOMAIN connections THEN
               /\ call' = Return("connect", id, "reused", <<>>)
               /\ UNCHANGED <<connections, sessions>>
           ELSE
               /\ Len(sessions) < MaxSessions
               /\ sessions' = Append(sessions, "open")
               /\ connections' =
                      [i \in DOMAIN connections \cup {id} |->
                          IF i = id THEN ConnectionInfo(id, req, port, now, handle)
                          ELSE connections[i]]
               /\ call' = IF adapter = "session"
                          THEN Return("connect", id, "connected", <<ConnectCall(req)>>)
                          ELSE ConnectionFailed(id, req)

\* connect_database(db_type, host, port, credentials)
connect_database(req, adapter) ==
    LET checked == _validate_connection_request(req)
        port == IF req.port = 0 THEN get_default_port(req.db_type) ELSE req.port
        id == connection_id_of[req]
        handle == Len(sessions) + 1
    IN  /\ UNCHANGED <<query, verdict, report, now, inflight>>
        /\ IF checked # "ok" THEN
               /\ call' = Raise("connect", "", checked)
               /\ UNCHANGED <<connections, sessions>>
           ELSE IF id \in DOMAIN connections THEN
               /\ call' = Return("connect", id, "reused", <<>>)
               /\ UNCHANGED <<connections, sessions>>
           ELSE IF adapter = "session" THEN
               /\ Len(sessions) < MaxSessions
               /\ sessions' = Append(sessions, "open")
               /\ connections' =
                      [i \in DOMAIN connections \cup {id} |->
                          IF i = id THEN ConnectionInfo(id, req, port, now, handle)
                          ELSE connections[i]]
               /\ call' = Return("connect", id, "connected", <<ConnectCall(req)>>)
           ELSE IF adapter = "raises" THEN
               /\ call' = ConnectionFailed(id, req)
               /\ UNCHANGED <<connections, sessions>>
           ELSE
               /\ call' = Raise("connect", id, "connection_failed")
               /\ UNCHANGED <<connections, sessions>>

\* the dispatch on db_type is reached only by a request that passes the
\* checks and has no record yet
ReachesAdapter(req) ==
    /\ _validate_connection_request(req) = "ok"
    /\ connection_id_of[req] \notin DOMAIN connections

Connect == \E req \in Requests :
               IF ReachesAdapter(req)
               THEN \E adapter \in AdapterOutcomes(req.db_type) :
                        connect_database(req, adapter)
               ELSE connect_database(req, "raises")

\* the statements and schema hints passed to execute_query; <<>> is no hint
ExShowCollections == <<"SHOW", " ", "COLLECTIONS">>

ExecStatements ==
    { [text |-> t, pad |-> 0] :
          t \in {ExSelectUsers, ExDeleteSubquery, ExShowCollections} }

SchemaHints == { <<>>, <<"public">> }

\* f"SET search_path TO {schema}" and f"USE {schema}"
SetSearchPath(schema) ==
    [text |-> <<"SET", " ", "search_path", " ", "TO", " ">> \o schema, pad |-> 0]

UseSchema(schema) == [text |-> <<"USE", " ">> \o schema, pad |-> 0]

\* the cursor.execute calls of _execute_postgresql_query, in order
_execute_postgresql_query(conn_info, q, schema) ==
    (IF schema # <<>>
     THEN <<EngineCall(conn_info.connection, "execute", SetSearchPath(schema))>>
     ELSE <<>>)
    \o <<EngineCall(conn_info.connection, "execute", q)>>

_execute_mysql_query(conn_info, q, schema) ==
    (IF schema # <<>>
     THEN <<EngineCall(conn_info.connection, "execute", UseSchema(schema))>>
     ELSE <<>>)
    \o <<EngineCall(conn_info.connection, "execute", q)>>

_execute_sqlite_query(conn_info, q) ==
    <<EngineCall(conn_info.connection, "execute", q)>>

\* query.upper().startswith('SHOW COLLECTIONS')
IsShowCollections(q) ==
    /\ Len(q.text) >= 3
    /\ UpperLex(q.text[1]) = "SHOW"
    /\ q.text[2] = " "
    /\ UpperLex(q.text[3]) = "COLLECTIONS"

\* a variant of _execute_mongodb_query that hands every statement to the
\* driver
_execute_mongodb_query_Translates(conn_info, q) ==
    IF IsShowCollections(q)
    THEN <<EngineCall(conn_info.connection, "list_collection_names", q)>>
    ELSE <<EngineCall(conn_info.connection, "execute", q)>>

_execute_mongodb_query(conn_info, q) ==
    IF IsShowCollections(q)
    THEN <<EngineCall(conn_info.connection, "list_collection_names", q)>>
    ELSE <<>>

\* the limit the execute_query tool never appends more than, and the largest
\* limit validate_query_params accepts
HardRowLimit == 1000

MaxRowLimit == 1000

\* SELECT * FROM limits
ExSelectLimits == <<"SELECT", " ", "*", " ", "FROM", " ", "limits">>

\* the arguments of a call of the execute_query tool; schema <<>> is
\* schema=None, and a schema name is a sequence of lexemes
ToolCall(q, limit, schema) ==
    [query |-> [text |-> q, pad |-> 0], limit |-> limit, schema |-> schema]

ToolCalls ==
    { ToolCall(q, 5, schema) :
          q \in {ExSelectUsers, ExDeleteSubquery, ExSelectLimits},
          schema \in SchemaHints }
    \cup { ToolCall(q, 5000, <<>>) : q \in {ExSelectUsers, ExSelectLimits} }
    \cup { ToolCall(ExSelectUsers, 1000, <<>>),
           ToolCall(ExSelectUsers, 0, <<>>), ToolCall(<<>>, 5, <<>>),
           ToolCall(ExSelectUsers, 5, <<"public", ";">>) }

\* str() of a row limit of the model
LimitText(n) ==
    CASE n = 5 -> "5" [] n = 1000 -> "1000" [] n = 5000 -> "5000" [] OTHER -> "0"

\* QueryValidator.validate_query_params(query, limit, schema): "ok" or the
\* message of the check that fails
validate_query_params(q, limit, schema) ==
    IF Strip(q.text) = <<>> THEN "Query cannot be empty"
    ELSE IF QueryLen(q) > MaxQueryLength THEN "Query too long"
    ELSE IF limit < 1 THEN "Limit must be a positive integer"
    ELSE IF limit > MaxRowLimit THEN "Limit cannot exceed 1000 rows"
    ELSE IF schema # <<>> /\ ~(Len(schema) = 1 /\ IsWord(schema[1]))
    THEN "Invalid schema name format"
    ELSE "ok"

\* 'limit' in query.lower().strip(): a word lexeme that holds the letters
MentionsLimit(q) ==
    \E i \in 1..Len(q.text) : UpperLex(q.text[i]) \in {"LIMIT", "LIMITS"}

\* query += f" LIMIT {min(limit, 1000)}" when the text does not hold 'limit'
ApplyLimit(q, limit) ==
    IF ~MentionsLimit(q) /\ limit # 0
    THEN [q EXCEPT !.text =
              @ \o <<" ", "LIMIT", " ",
                     LimitText(IF limit < HardRowLimit THEN limit
                               ELSE HardRowLimit)>>]
    ELSE q

\* QueryValidator().validate_query_params, tabulated over the calls of the
\* tool
query_validator ==
    [c \in ToolCalls |-> validate_query_params(c.query, c.limit, c.schema)]

\* the statements the execute_query tool hands to the manager
LimitedStatements == { ApplyLimit(c.query, c.limit) : c \in ToolCalls }

\* self.security_validator.is_safe_query, tabulated over the statements
\* execute_query is called with
security_validator ==
    [q \in ExecStatements \cup LimitedStatements |-> is_safe_query(q)]

\* the driver calls execute_query makes when none of them raises
EnginePlan(conn_info, q, schema) ==
    CASE conn_info.db_type = "postgresql" ->
             _execute_postgresql_query(conn_info, q, schema)
      [] conn_info.db_type = "mysql" ->
             _execute_mysql_query(conn_info, q, schema)
      [] conn_info.db_type = "sqlite" -> _execute_sqlite_query(conn_info, q)
      [] OTHER -> _execute_mongodb_query(conn_info, q)

\* how a run of the planned driver calls can end: passed counts the calls
\* that return before one raises, Len(plan) when none does
EngineOutcomes(conn_info, plan) == 0 .. Len(plan)

\* a variant of execute_query that validates the statement before it looks
\* the connection up
execute_query_ValidatesFirst(id, q, schema, passed) ==
    /\ UNCHANGED <<query, verdict, report, sessions, now, inflight>>
    /\ IF ~security_validator[q] THEN
           /\ call' = Raise("execute", id, "not_allowed")
           /\ UNCHANGED connections
       ELSE IF id \notin DOMAIN connections THEN
           /\ call' = Raise("execute", id, "invalid_connection_id")
           /\ UNCHANGED connections
       ELSE
           LET conn_info == connections[id]
               plan == EnginePlan(conn_info, q, schema)
           IN  /\ conn_info.query_count < MaxQueries
               /\ passed \in EngineOutcomes(conn_info, plan)
               /\ connections' =
                      [connections EXCEPT ![id].last_used = now,
                                          ![id].query_count = @ + 1]
               /\ call' =
                      IF conn_info.db_type = "mongodb" /\ plan = <<>>
                      THEN Return("execute", id, "unsupported", <<>>)
                      ELSE IF passed = Len(plan)
                      THEN Return("execute", id, "success", plan)
                      ELSE Return("execute", id, "failure",
                                  SubSeq(plan, 1, passed + 1))

\* a variant of execute_query that drops the record of a connection whose
\* driver call raised
execute_query_DropsFailed(id, q, schema, passed) ==
    /\ UNCHANGED <<query, verdict, report, sessions, now, inflight>>
    /\ IF id \notin DOMAIN connections THEN
           /\ call' = Raise("execute", id, "invalid_connection_id")
           /\ UNCHANGED connections
       ELSE IF ~security_validator[q] THEN
           /\ call' = Raise("execute", id, "not_allowed")
           /\ UNCHANGED connections
       ELSE
           LET conn_info == connections[id]
               plan == EnginePlan(conn_info, q, schema)
           IN  /\ passed \in EngineOutcomes(conn_info, plan)
               /\ IF conn_info.db_type = "mongodb" /\ plan = <<>> THEN
                      /\ connections' =
                             [connections EXCEPT ![id].last_used = now,
                                                 ![id].query_count = @ + 1]
                      /\ call' = Return("execute", id, "unsupported", <<>>)
                  ELSE IF passed = Len(plan) THEN
                      /\ connections' =
                             [connections EXCEPT ![id].last_used = now,
                                                 ![id].query_count = @ + 1]
                      /\ call' = Return("execute", id, "success", plan)
                  ELSE
                      /\ connections' =
                             [i \in DOMAIN connections \ {id} |-> connections[i]]
                      /\ call' = Return("execute", id, "failure",
                                        SubSeq(plan, 1, passed + 1))

\* a variant of execute_query that accounts for the statement before it is
\* validated
execute_query_AccountsFirst(id, q, schema, passed) ==
    /\ UNCHANGED <<query, verdict, report, sessions, now, inflight>>
    /\ IF id \notin DOMAIN connections THEN
           /\ call' = Raise("execute", id, "invalid_connection_id")
           /\ UNCHANGED connections
       ELSE
           LET conn_info == connections[id]
               plan == EnginePlan(conn_info, q, schema)
           IN  /\ conn_info.query_count < MaxQueries
               /\ connections' =
                      [connections EXCEPT ![id].last_used = now,
                                          ![id].query_count = @ + 1]
               /\ IF ~security_validator[q] THEN
                      call' = Raise("execute", id, "not_allowed")
                  ELSE
                      /\ passed \in EngineOutcomes(conn_info, plan)
                      /\ call' =
                             IF conn_info.db_type = "mongodb" /\ plan = <<>>
                             THEN Return("execute", id, "unsupported", <<>>)
                             ELSE IF passed = Len(plan)
                             THEN Return("execute", id, "success", plan)
                             ELSE Return("execute", id, "failure",
                                         SubSeq(plan, 1, passed + 1))

\* execute_query(connection_id, query, schema)
execute_query(id, q, schema, passed) ==
    /\ UNCHANGED <<query, verdict, report, sessions, now, inflight>>
    /\ IF id \notin DOMAIN connections THEN
           /\ call' = Raise("execute", id, "invalid_connection_id")
           /\ UNCHANGED connections
       ELSE IF ~security_validator[q] THEN
           /\ call' = Raise("execute", id, "not_allowed")
           /\ UNCHANGED connections
       ELSE
           LET conn_info == connections[id]
               plan == EnginePlan(conn_info, q, schema)
           IN  /\ passed \in EngineOutcomes(conn_info, plan)
               /\ connections' =
                      [connections EXCEPT ![id].last_used = now,
                                          ![id].query_count = @ + 1]
               /\ call' =
                      IF conn_info.db_type = "mongodb" /\ plan = <<>>
                      THEN Return("execute", id, "unsupported", <<>>)
                      ELSE IF passed = Len(plan)
                      THEN Return("execute", id, "success", plan)
                      ELSE Return("execute", id, "failure",
                                  SubSeq(plan, 1, passed + 1))

\* query_count is let to grow up to MaxQueries
Execute == \E id \in ConnectionIds : \E q \in ExecStatements :
               IF id \in DOMAIN connections /\ security_validator[q]
               THEN /\ connections[id].query_count < MaxQueries
                    /\ \E schema \in SchemaHints : \E passed \in 0 .. 2 :
                           execute_query(id, q, schema, passed)
               ELSE execute_query(id, q, <<>>, 0)

\* the execute_query tool: execute_query(connection_id, query, schema, limit)
tool_execute_query(id, c, passed) ==
    IF query_validator[c] # "ok" THEN
        /\ call' = Raise("execute", id, "invalid_query_params")
        /\ UNCHANGED <<query, verdict, report, connections, sessions, now,
                       inflight>>
    ELSE IF id \notin DOMAIN connections THEN
        /\ call' = Raise("execute", id, "invalid_connection_id")
        /\ UNCHANGED <<query, verdict, report, connections, sessions, now,
                       inflight>>
    ELSE execute_query(id, ApplyLimit(c.query, c.limit), c.schema, passed)

\* through the tool query_count is let to grow up to MaxToolQueries
MaxToolQueries == MaxQueries + 1

ToolExecute ==
    \E id \in ConnectionIds : \E c \in ToolCalls :
        IF /\ query_validator[c] = "ok"
           /\ id \in DOMAIN connections
           /\ security_validator[ApplyLimit(c.query, c.limit)]
        THEN /\ connections[id].query_count < MaxToolQueries
             /\ \E passed \in 0 .. 2 : tool_execute_query(id, c, passed)
        ELSE tool_execute_query(id, c, 0)

\* conn_info.connection.close(), the driver call of disconnect
CloseCall(handle) == EngineCall(handle, "close", [text |-> <<>>, pad |-> 0])

\* disconnect(connection_id).  closes is whether the driver's close returns
\* or raises; a close that raises leaves the session open.
disconnect(id, closes) ==
    /\ UNCHANGED <<query, verdict, report, now, inflight>>
    /\ IF id \notin DOMAIN connections THEN
           /\ call' = Return("disconnect", id, "false", <<>>)
           /\ UNCHANGED <<connections, sessions>>
       ELSE
           LET handle == connections[id].connection
           IN  IF closes THEN
                   /\ sessions' = [sessions EXCEPT ![handle] = "closed"]
                   /\ connections' =
                          [i \in DOMAIN connections \ {id} |-> connections[i]]
                   /\ call' = Return("disconnect", id, "true",
                                     <<CloseCall(handle)>>)
               ELSE
                   /\ UNCHANGED <<connections, sessions>>
                   /\ call' = Return("disconnect", id, "false",
                                     <<CloseCall(handle)>>)

Disconnect == \E id \in ConnectionIds :
                  IF id \in DOMAIN connections
                  THEN \E closes \in BOOLEAN : disconnect(id, closes)
                  ELSE disconnect(id, TRUE)

\* a variant of get_connection_info that takes the record out of the
\* registry (a pop in place of the lookup)
get_connection_info_Pops(id) ==
    /\ call' = Return("get", id,
                      IF id \in DOMAIN connections THEN "found" ELSE "none", <<>>)
    /\ connections' = [i \in DOMAIN connections \ {id} |-> connections[i]]
    /\ UNCHANGED <<query, verdict, report, sessions, now, inflight>>

\* get_connection_info(connection_id): the to_dict() of the record, or None
get_connection_info(id) ==
    /\ call' = Return("get", id,
                      IF id \in DOMAIN connections THEN "found" ELSE "none", <<>>)
    /\ UNCHANGED <<query, verdict, report, connections, sessions, now, inflight>>

GetConnectionInfo == \E id \in ConnectionIds : get_connection_info(id)

\* list_connections(): the to_dict() of every record; count is their number
list_connections ==
    /\ call' = [op |-> "list", id |-> "", result |-> "",
                count |-> Cardinality(DOMAIN connections), engine |-> <<>>]
    /\ UNCHANGED <<query, verdict, report, connections, sessions, now, inflight>>

\* the thresholds passed to cleanup_stale_connections
IdleThresholds == {0, 1}

\* the close calls of the disconnects that cleanup_stale_connections makes,
\* in the order of its list of stale ids: the order the records were stored
\* in, which is the order of their session handles
CloseCalls(stale_connections) ==
    LET IsStale(c) ==
            \E i \in stale_connections : connections[i].connection = c.handle
    IN  SelectSeq([h \in 1..Len(sessions) |-> CloseCall(h)], IsStale)

\* cleanup_stale_connections(max_idle_time).  raising is the set of stale
\* records whose close raises (their sessions are left open).
cleanup_stale_connections(max_idle_time, raising) ==
    LET stale_connections ==
            { i \in DOMAIN connections :
                  now - connections[i].last_used > max_idle_time }
        removed == stale_connections \ raising
    IN  /\ raising \subseteq stale_connections
        /\ UNCHANGED <<query, verdict, report, now, inflight>>
        /\ sessions' =
               [h \in DOMAIN sessions |->
                   IF \E i \in removed : connections[i].connection = h
                   THEN "closed" ELSE sessions[h]]
        /\ connections' =
               [i \in DOMAIN connections \ removed |-> connections[i]]
        /\ call' = [op |-> "cleanup", id |-> "", result |-> "",
                    count |-> Cardinality(stale_connections),
                    engine |-> CloseCalls(stale_connections)]

CleanupStale == \E max_idle_time \in IdleThresholds :
                \E raising \in SUBSET DOMAIN connections :
                    cleanup_stale_connections(max_idle_time, raising)

\* time.time() advances between calls
Tick ==
    /\ now < MaxTime
    /\ now' = now + 1
    /\ UNCHANGED <<query, verdict, report, connections, sessions, call, inflight>>

Init ==
    /\ query = [text |-> <<>>, pad |-> 0]
    /\ verdict = NoVerdict
    /\ report = NoReport
    /\ connections = <<>>
    /\ sessions = <<>>
    /\ now = 0
    /\ call = NoCall
    /\ inflight = <<>>

Next == Connect \/ Execute \/ Disconnect \/ CleanupStale \/ Tick

Spec == Init /\ [][Next]_vars

\* the manager behind the tools that connect, query, look up and disconnect
ToolNext ==
    \/ Connect \/ Execute \/ ToolExecute \/ Disconnect
    \/ GetConnectionInfo \/ list_connections

ToolSpec == Init /\ [][ToolNext]_vars

-----------------------------------------------------------------------------
(* MultiDatabaseManager under concurrent callers.                          *)
(* Each inbound tool invocation is a caller of its own; the manager takes  *)
(* no lock, so a call is a sequence of steps that interleave with the      *)
(* steps of the other callers.  A step is a stretch of the method between  *)
(* two points where another thread can run: the blocking driver calls      *)
(* (connect, close) and the reads and writes of self.connections around    *)
(* them.                                                                   *)

NumCallers == 2

Callers == 1 .. NumCallers

\* the requests and ids of the concurrent callers: two requests with one
\* secret each for one identity, and two requests for two SQLite files
ConcRequests ==
    { r \in Requests :
          validate_credentials(r) /\ r.db_type \in {"postgresql", "sqlite"} }

ConcIds == { _generate_connection_id(r) : r \in ConcRequests }

NoReq == Req("", "", 0, "", "", "", "")

Frame(pc, op, req, id, handle, pending, count) ==
    [ pc |-> pc, op |-> op, req |-> req, id |-> id, handle |-> handle,
      pending |-> pending, count |-> count, statement |-> <<>> ]

Idle == Frame("idle", "", NoReq, "", 0, {}, 0)

ConcInit ==
    /\ query = [text |-> <<>>, pad |-> 0]
    /\ verdict = NoVerdict
    /\ report = NoReport
    /\ connections = <<>>
    /\ sessions = <<>>
    /\ now = 0
    /\ call = NoCall
    /\ inflight = [c \in Callers |-> Idle]

At(c, pc) == inflight[c].pc = pc

Goto(c, frame) == inflight' = [inflight EXCEPT ![c] = frame]

\* a caller enters connect_database
BeginConnect(c) ==
    /\ At(c, "idle")
    /\ \E req \in ConcRequests :
           Goto(c, Frame("c_validate", "connect", req, "", 0, {}, 0))
    /\ UNCHANGED <<query, verdict, report, connections, sessions, now, call>>

\* connect_database, the call of _validate_connection_request: the capacity
\* check reads len(self.connections)
ConnectValidate(c) ==
    /\ At(c, "c_validate")
    /\ LET f == inflight[c]
           checked == _validate_connection_request(f.req)
       IN  IF checked # "ok"
           THEN /\ call' = Raise("connect", "", checked)
                /\ Goto(c, Idle)
           ELSE /\ Goto(c, [f EXCEPT !.pc = "c_lookup",
                                     !.id = connection_id_of[f.req]])
                /\ UNCHANGED call
    /\ UNCHANGED <<query, verdict, report, connections, sessions, now>>

\* connect_database, "if connection_id in self.connections"
ConnectLookup(c) ==
    /\ At(c, "c_lookup")
    /\ LET f == inflight[c]
       IN  IF f.id \in DOMAIN connections
           THEN /\ call' = Return("connect", f.id, "reused", <<>>)
                /\ Goto(c, Idle)
           ELSE /\ Goto(c, [f EXCEPT !.pc = "c_adapter"])
                /\ UNCHANGED call
    /\ UNCHANGED <<query, verdict, report, connections, sessions, now>>

\* connect_database, the blocking call of the driver's connect
ConnectAdapter(c) ==
    /\ At(c, "c_adapter")
    /\ LET f == inflight[c]
       IN  \E adapter \in AdapterOutcomes(f.req.db_type) :
               IF adapter = "session"
               THEN /\ Len(sessions) < MaxSessions
                    /\ sessions' = Append(sessions, "open")
                    /\ Goto(c, [f EXCEPT !.pc = "c_store",
                                         !.handle = Len(sessions) + 1])
                    /\ UNCHANGED call
               ELSE /\ call' = ConnectionFailed(f.id, f.req)
                    /\ Goto(c, Idle)
                    /\ UNCHANGED sessions
    /\ UNCHANGED <<query, verdict, report, connections, now>>

\* connect_database, "self.connections[connection_id] = conn_info"
ConnectStore(c) ==
    /\ At(c, "c_store")
    /\ LET f == inflight[c]
           port == IF f.req.port = 0 THEN get_default_port(f.req.db_type)
                   ELSE f.req.port
       IN  /\ connections' =
                  [i \in DOMAIN connections \cup {f.id} |->
                      IF i = f.id
                      THEN ConnectionInfo(f.id, f.req, port, now, f.handle)
                      ELSE connections[i]]
           /\ call' = Return("connect", f.id, "connected", <<ConnectCall(f.req)>>)
           /\ Goto(c, Idle)
    /\ UNCHANGED <<query, verdict, report, sessions, now>>

\* the statements of the concurrent callers: one that is_safe_query approves
\* and one that it rejects
ConcStatements ==
    { [text |-> t, pad |-> 0] : t \in {ExSelectUsers, ExDeleteSubquery} }

\* a caller enters execute_query
BeginExecute(c) ==
    /\ At(c, "idle")
    /\ \E id \in ConcIds :
           Goto(c, Frame("e_check", "execute", NoReq, id, 0, {}, 0))
    /\ UNCHANGED <<query, verdict, report, connections, sessions, now, call>>

\* execute_query, "if connection_id not in self.connections" and the call of
\* is_safe_query, which does not read the registry
ExecuteCheck(c) ==
    /\ At(c, "e_check")
    /\ LET f == inflight[c]
       IN  IF f.id \notin DOMAIN connections
           THEN /\ call' = Raise("execute", f.id, "invalid_connection_id")
                /\ Goto(c, Idle)
           ELSE \E q \in ConcStatements :
                    IF ~security_validator[q]
                    THEN /\ call' = Raise("execute", f.id, "not_allowed")
                         /\ Goto(c, Idle)
                    ELSE /\ Goto(c, [f EXCEPT !.pc = "e_read",
                                              !.statement = q])
                         /\ UNCHANGED call
    /\ UNCHANGED <<query, verdict, report, connections, sessions, now>>

\* execute_query, "conn_info = self.connections[connection_id]" and the two
\* assignments to the record; the read is outside the try block, so the
\* KeyError of a record that has gone in between leaves the method
ExecuteRead(c) ==
    /\ At(c, "e_read")
    /\ LET f == inflight[c]
       IN  IF f.id \notin DOMAIN connections
           THEN /\ call' = Raise("execute", f.id, "key_error")
                /\ Goto(c, Idle)
                /\ UNCHANGED connections
           ELSE /\ connections[f.id].query_count < MaxQueries
                /\ connections' =
                       [connections EXCEPT ![f.id].last_used = now,
                                           ![f.id].query_count = @ + 1]
                /\ Goto(c, [f EXCEPT !.pc = "e_engine",
                                     !.req = connections[f.id],
                                     !.handle = connections[f.id].connection])
                /\ UNCHANGED call
    /\ UNCHANGED <<query, verdict, report, sessions, now>>

\* execute_query, the blocking driver calls of the _execute_* helper on the
\* session of the record that was read; a driver raises on a session that
\* has been closed, and the method answers with success False
ExecuteEngine(c) ==
    /\ At(c, "e_engine")
    /\ LET f == inflight[c]
           plan == EnginePlan(f.req, f.statement, <<>>)
       IN  /\ \E passed \in EngineOutcomes(f.req, plan) :
                  /\ sessions[f.handle] = "closed" => passed = 0
                  /\ call' =
                         IF passed = Len(plan)
                         THEN Return("execute", f.id, "success", plan)
                         ELSE Return("execute", f.id, "failure",
                                     SubSeq(plan, 1, passed + 1))
           /\ Goto(c, Idle)
    /\ UNCHANGED <<query, verdict, report, connections, sessions, now>>

\* a caller enters disconnect
BeginDisconnect(c) ==
    /\ At(c, "idle")
    /\ \E id \in ConcIds :
           Goto(c, Frame("d_lookup", "disconnect", NoReq, id, 0, {}, 0))
    /\ UNCHANGED <<query, verdict, report, connections, sessions, now, call>>

\* disconnect returns result; inside cleanup_stale_connections the result is
\* dropped and the loop goes on
DisconnectReturns(c, result) ==
    LET f == inflight[c]
    IN  IF f.op = "cleanup"
        THEN /\ Goto(c, [f EXCEPT !.pc = "s_next", !.id = "", !.handle = 0])
             /\ UNCHANGED call
        ELSE /\ call' = Return("disconnect", f.id, result, <<>>)
             /\ Goto(c, Idle)

\* disconnect, the membership test and the read of the record (a record that
\* goes away between the two makes the read raise, which the method also
\* answers with False)
DisconnectLookup(c) ==
    /\ At(c, "d_lookup")
    /\ LET f == inflight[c]
       IN  IF f.id \notin DOMAIN connections
           THEN DisconnectReturns(c, "false")
           ELSE /\ Goto(c, [f EXCEPT !.pc = "d_close",
                                     !.handle = connections[f.id].connection])
                /\ UNCHANGED call
    /\ UNCHANGED <<query, verdict, report, connections, sessions, now>>

\* disconnect, the blocking call of the driver's close
DisconnectClose(c) ==
    /\ At(c, "d_close")
    /\ LET f == inflight[c]
       IN  \E closes \in BOOLEAN :
               IF closes
               THEN /\ sessions' = [sessions EXCEPT ![f.handle] = "closed"]
                    /\ Goto(c, [f EXCEPT !.pc = "d_delete"])
                    /\ UNCHANGED call
               ELSE /\ DisconnectReturns(c, "false")
                    /\ UNCHANGED sessions
    /\ UNCHANGED <<query, verdict, report, connections, now>>

\* disconnect, "del self.connections[connection_id]"; the KeyError of a key
\* that is gone is caught and answered with False
DisconnectDelete(c) ==
    /\ At(c, "d_delete")
    /\ LET f == inflight[c]
       IN  IF f.id \in DOMAIN connections
           THEN /\ connections' =
                       [i \in DOMAIN connections \ {f.id} |-> connections[i]]
                /\ DisconnectReturns(c, "true")
           ELSE /\ UNCHANGED connections
                /\ DisconnectReturns(c, "false")
    /\ UNCHANGED <<query, verdict, report, sessions, now>>

\* a caller enters cleanup_stale_connections and starts iterating over
\* self.connections.items(); pending holds the keys the iteration started
\* on, count the max_idle_time argument until the scan has ended
BeginCleanup(c) ==
    /\ At(c, "idle")
    /\ \E max_idle_time \in IdleThresholds :
           Goto(c, Frame("s_scan", "cleanup", NoReq, "", 0,
                         DOMAIN connections, max_idle_time))
    /\ UNCHANGED <<query, verdict, report, connections, sessions, now, call>>

\* cleanup_stale_connections, the end of the scan: a dictionary that changed
\* size during the iteration makes it raise RuntimeError
CleanupScan(c) ==
    /\ At(c, "s_scan")
    /\ LET f == inflight[c]
           stale_connections ==
               { i \in DOMAIN connections :
                     now - connections[i].last_used > f.count }
       IN  IF Cardinality(DOMAIN connections) # Cardinality(f.pending)
           THEN /\ call' = Raise("cleanup", "", "runtime_error")
                /\ Goto(c, Idle)
           ELSE /\ Goto(c, [f EXCEPT !.pc = "s_next",
                                     !.pending = stale_connections,
                                     !.count = Cardinality(stale_connections)])
                /\ UNCHANGED call
    /\ UNCHANGED <<query, verdict, report, connections, sessions, now>>

\* cleanup_stale_connections, "for conn_id in stale_connections" and the
\* return of len(stale_connections)
CleanupNext(c) ==
    /\ At(c, "s_next")
    /\ LET f == inflight[c]
       IN  IF f.pending = {}
           THEN /\ call' = [op |-> "cleanup", id |-> "", result |-> "",
                            count |-> f.count, engine |-> <<>>]
                /\ Goto(c, Idle)
           ELSE /\ \E id \in f.pending :
                       Goto(c, [f EXCEPT !.pc = "d_lookup", !.id = id,
                                         !.pending = @ \ {id}])
                /\ UNCHANGED call
    /\ UNCHANGED <<query, verdict, report, connections, sessions, now>>

ConcTick ==
    /\ now < MaxTime
    /\ now' = now + 1
    /\ UNCHANGED <<query, verdict, report, connections, sessions, call, inflight>>

ConcNext ==
    \/ \E c \in Callers :
          \/ BeginConnect(c)
          \/ ConnectValidate(c)
          \/ ConnectLookup(c)
          \/ ConnectAdapter(c)
          \/ ConnectStore(c)
          \/ BeginExecute(c)
          \/ ExecuteCheck(c)
          \/ ExecuteRead(c)
          \/ ExecuteEngine(c)
          \/ BeginDisconnect(c)
          \/ DisconnectLookup(c)
          \/ DisconnectClose(c)
          \/ DisconnectDelete(c)
          \/ BeginCleanup(c)
          \/ CleanupScan(c)
          \/ CleanupNext(c)
    \/ ConcTick

ConcSpec == ConcInit /\ [][ConcNext]_vars

-----------------------------------------------------------------------------
(* Properties of the validator, checked under SafetySpec *)

\* the statement holds one of the fifteen denied verbs as a whole word, in
\* any letter case
ContainsDeniedVerb(s) ==
    \E i \in 1..Len(s) :
        UpperLex(s[i]) \in
            {"INSERT", "UPDATE", "DELETE", "DROP", "CREATE", "ALTER", "TRUNCATE",
             "REPLACE", "MERGE", "CALL", "EXEC", "GRANT", "REVOKE", "SET",
             "DECLARE"}

BeginsWithAllowedVerb(q) == StartsWithAllowed(QueryUpper(q))

Gated == verdict # NoVerdict
Reported == report # NoReport

Violates(msg) == \E k \in 1..Len(report.violations) : report.violations[k] = msg

\* C3: a statement that holds a denied verb as a whole word anywhere, in any
\* letter case, is rejected by the gate, also when it begins with an allowed
\* verb, and the violation list of its report names a denied verb that the
\* statement holds.
C3_DeniedVerbRejected ==
    ContainsDeniedVerb(query.text) =>
        /\ Gated => verdict = <<FALSE>>
        /\ Reported =>
              /\ ~report.is_safe
              /\ \E i \in 1..Len(query.text) :
                    /\ UpperLex(query.text[i]) \in dangerous_operations
                    /\ Violates("Contains dangerous operation: \\b"
                                \o UpperLex(query.text[i]) \o "\\b")

C3_Witness ==
    /\ query.text = ExDeleteSubquery
    /\ Reported
    /\ report.checks.starts_with_allowed_operation
    /\ Violates("Contains dangerous operation: \\bDELETE\\b")

HasInlineComment(s) == \E i \in 1..(Len(s) - 1) : s[i] = "-" /\ s[i + 1] = "-"

HasBlockComment(s) ==
    \E i \in 1..(Len(s) - 3) : \E j \in (i + 2)..(Len(s) - 1) :
        s[i] = "/" /\ s[i + 1] = "*" /\ s[j] = "*" /\ s[j + 1] = "/"

Commented(q) ==
    /\ BeginsWithAllowedVerb(q)
    /\ HasInlineComment(q.text) \/ HasBlockComment(q.text)

\* C4 as claimed: a statement that begins with an allowed verb and holds an
\* inline or a block comment is rejected, and the violation of its report for
\* the injection check names the comment pattern.
C4_RejectedForCommentPattern ==
    Commented(query) =>
        /\ Gated => verdict = <<FALSE>>
        /\ Reported =>
              \/ Violates("Security risk: --\\s*[^\\r\\n]*")
              \/ Violates("Security risk: /\\*.*?\\*/")

\* C4 as amended: such a statement is rejected and its report marks the
\* injection check as failed; the violation for the injection check names
\* the first pattern of the list that the statement matches, which is a
\* comment pattern only when no pattern listed before it matches.
C4_RejectedFirstPatternNamed ==
    Commented(query) =>
        /\ Gated => verdict = <<FALSE>>
        /\ Reported =>
              /\ ~report.is_safe
              /\ ~report.checks.no_injection_patterns
              /\ \E i \in 1..13 :
                    /\ Violates("Security risk: " \o security_patterns[i])
                    /\ SecurityPatternSearch(i, QueryUpper(query))
                    /\ \A j \in 1..(i - 1) :
                           ~SecurityPatternSearch(j, QueryUpper(query))
                    /\ \A j \in (i + 1)..Len(security_patterns) :
                           ~Violates("Security risk: " \o security_patterns[j])

C4_Witness ==
    /\ query.text = ExCommentSmuggle
    /\ Reported
    /\ Violates("Security risk: ;\\s*\\w+")
    /\ ~Violates("Security risk: --\\s*[^\\r\\n]*")

ReferencesMetadata(s) ==
    \E i \in 1..Len(s) :
        UpperLex(s[i]) \in
            {"INFORMATION_SCHEMA", "PG_CATALOG", "PG_TABLES", "PG_CLASS",
             "PG_NAMESPACE", "PG_ATTRIBUTE", "PG_STATS", "SQLITE_MASTER", "MYSQL",
             "PERFORMANCE_SCHEMA"}

NoForbiddenPattern(q) ==
    \A i \in 1..Len(security_patterns) : ~SecurityPatternSearch(i, QueryUpper(q))

\* non-empty, of at most the maximum length, begins with an allowed verb,
\* no denied verb, no forbidden pattern, at most three parentheses
WithinPolicy(q) ==
    /\ ~IsEmptyQuery(q)
    /\ QueryLen(q) <= 10000
    /\ BeginsWithAllowedVerb(q)
    /\ ~ContainsDeniedVerb(q.text)
    /\ NoForbiddenPattern(q)
    /\ CountParens(q.text) <= 3

PlainMetadataTexts ==
    { s \in ExampleTexts :
        /\ ReferencesMetadata(s)
        /\ CountParens(s) = 0
        /\ WithinPolicy([text |-> s, pad |-> 0]) }

\* C6 as claimed: a metadata statement without parentheses is accepted, and
\* wrapped in two more levels of subquery nesting it is rejected.
C6_TwoLevelsRejected ==
    Gated =>
        \A s \in PlainMetadataTexts :
            /\ query = [text |-> s, pad |-> 0] => verdict = <<TRUE>>
            /\ query = [text |-> WrapN(s, 2), pad |-> 0] => verdict = <<FALSE>>

\* C6 as amended: a metadata statement without parentheses is accepted, it
\* is still accepted when wrapped in one or two more levels of subquery
\* nesting, and from three more levels on it is rejected by the metadata
\* check (at three levels the general nesting check of the report still
\* passes).
C6_ThreeLevelsRejected ==
    \A s \in PlainMetadataTexts : \A n \in 0..MaxWrap :
        query = [text |-> WrapN(s, n), pad |-> 0] =>
            /\ Gated => verdict = <<n <= 2>>
            /\ Reported =>
                  /\ report.is_safe = (n <= 2)
                  /\ Violates("Suspicious metadata access pattern") = (n > 2)
                  /\ Violates("Excessive query nesting") = (n > 3)

C6_Witness ==
    /\ query = [text |-> WrapN(ExMetadata, 3), pad |-> 0]
    /\ verdict = <<FALSE>>

-----------------------------------------------------------------------------
(* Properties of the registry and of the executor, checked under Spec *)

Known(id) == id \in DOMAIN connections

Live == Cardinality(DOMAIN connections)

\* the requests that pass validate_db_type and the CredentialValidator
ValidRequests == { r \in Requests : validate_credentials(r) }

\* the statements passed to execute_query that is_safe_query rejects
RejectedStatements == { q \in ExecStatements : ~is_safe_query(q) }

\* C1: every statement text that execute_query sends to a session with
\* cursor.execute, the statement issued for the schema hint included, is
\* approved by is_safe_query.
C1_EngineStatementsApproved ==
    call.op = "execute" =>
        \A k \in 1..Len(call.engine) :
            call.engine[k].api = "execute" =>
                is_safe_query(call.engine[k].statement)

\* C2: execute_query on a known connection with a statement the validator
\* rejects makes no engine call and leaves the record (last-used time,
\* statement counter, session handle), the registry and the sessions as they
\* were.
C2_RejectedLeavesNoTrace ==
    [][ call'.op = "execute" =>
        \A id \in DOMAIN connections : \A q \in RejectedStatements :
        \A schema \in SchemaHints : \A passed \in 0..2 :
            execute_query(id, q, schema, passed)
            => /\ call'.result = "not_allowed"
               /\ call'.engine = <<>>
               /\ connections' = connections
               /\ sessions' = sessions ]_vars

C2_Witness ==
    /\ call.op = "execute"
    /\ call.result = "not_allowed"
    /\ Known(call.id)
    /\ connections[call.id].query_count = 0
    /\ connections[call.id].last_used < now

\* C7: when a record for the fingerprint of a valid request exists, also in
\* a full registry, connect_database returns the id of that record, opens no
\* session and leaves the registry as it was.
C7_ExistingIdentityReused ==
    [][ call'.op = "connect" =>
        \A req \in ValidRequests : \A adapter \in AdapterOutcomes(req.db_type) :
            ( /\ Known(connection_id_of[req])
              /\ connect_database(req, adapter) )
            => /\ call'.result = "reused"
               /\ call'.id = connection_id_of[req]
               /\ connections' = connections
               /\ sessions' = sessions ]_vars

\* C8: in a full registry connect_database with a valid request whose
\* fingerprint has no record fails with the capacity error, opens no session
\* and leaves the registry as it was; right after a disconnect that returned
\* True, connect_database with a valid request whose fingerprint has no
\* record and whose driver call returns a session stores a record for it.
C8_CapacityThenRoom ==
    [][ call'.op = "connect" =>
        \A req \in ValidRequests : \A adapter \in AdapterOutcomes(req.db_type) :
            ( /\ ~Known(connection_id_of[req])
              /\ connect_database(req, adapter) )
            => /\ Live = MaxConnections =>
                     /\ call'.result = "capacity"
                     /\ connections' = connections
                     /\ sessions' = sessions
               /\ ( /\ call.op = "disconnect"
                    /\ call.result = "true"
                    /\ adapter = "session" ) =>
                     /\ call'.result = "connected"
                     /\ call'.id = connection_id_of[req]
                     /\ DOMAIN connections' =
                            DOMAIN connections \cup {connection_id_of[req]}
                     /\ Len(sessions') = Len(sessions) + 1 ]_vars

\* a full registry turns a new identity away after a record was disconnected
\* and its place taken by another connect
C8_Witness ==
    /\ call.op = "connect"
    /\ call.result = "capacity"
    /\ Live = MaxConnections
    /\ Len(sessions) > MaxConnections
    /\ \E h \in 1..Len(sessions) : sessions[h] = "closed"

\* C10: when the driver's connect raises, connect_database reports a
\* connection error and the registry is as it was before the call: no record
\* for the fingerprint, the same records as before.
C10_AdapterFailureLeavesRegistry ==
    [][ call'.op = "connect" =>
        \A req \in Requests :
            ( /\ ReachesAdapter(req)
              /\ connect_database(req, "raises") )
            => /\ call'.result = "connection_failed"
               /\ connections' = connections
               /\ ~Known(connection_id_of[req])' ]_vars

C10_Witness ==
    /\ call.op = "connect"
    /\ call.result = "connection_failed"
    /\ ~Known(call.id)
    /\ Len(sessions) > 0

\* the requests whose engine kind connect_database has no _connect_* helper
\* for, and those the CredentialValidator rejects
RefusedRequests ==
    { r \in Requests : \/ "session" \notin AdapterOutcomes(r.db_type)
                       \/ ~validate_credentials(r) }

\* C19: connect_database with a request whose engine kind is not supported
\* or whose credentials the CredentialValidator rejects raises an error
\* without a call of the driver's connect, and leaves the registry and the
\* sessions as they were, whatever the registry holds.
C19_RefusedBeforeAdapter ==
    [][ call'.op = "connect" =>
        \A req \in RefusedRequests : \A adapter \in AdapterOutcomes(req.db_type) :
            connect_database(req, adapter)
            => /\ call'.result \in {"unsupported_type", "invalid_credentials",
                                    "capacity", "connection_failed"}
               /\ call'.engine = <<>>
               /\ connections' = connections
               /\ sessions' = sessions ]_vars

\* a request is refused for its credentials while the registry holds a record
C19_Witness ==
    /\ call.op = "connect"
    /\ call.result = "invalid_credentials"
    /\ call.engine = <<>>
    /\ Live > 0

-----------------------------------------------------------------------------
(* Properties of disconnect and of cleanup_stale_connections, checked      *)
(* under Spec                                                              *)

\* C11: disconnect of an id that has no record returns False and changes
\* neither the registry nor a session, and a disconnect that directly follows
\* a returned disconnect of the same id returns False.
C11_DisconnectIdempotent ==
    [][ call'.op = "disconnect" =>
        \A id \in ConnectionIds : \A closes \in BOOLEAN :
            disconnect(id, closes)
            => /\ ~Known(id) =>
                     /\ call'.result = "false"
                     /\ connections' = connections
                     /\ sessions' = sessions
               /\ (call.op = "disconnect" /\ call.id = id) =>
                     call'.result = "false" ]_vars

\* the sessions a call invoked the driver's close on
ClosedBy(c) ==
    { c.engine[k].handle :
          k \in { j \in 1..Len(c.engine) : c.engine[j].api = "close" } }

\* a disconnect or cleanup_stale_connections call returns in this step
ClosingStep == call'.op \in {"disconnect", "cleanup"} /\ now' = now

\* C12: every session belongs to at most one record, the session of a record
\* that has left the registry is closed, and a disconnect or
\* cleanup_stale_connections call invokes close only on sessions that are
\* open and that the call before it did not invoke close on.
C12_SessionClosedOnce ==
    [][ /\ \A i, j \in DOMAIN connections' :
               connections'[i].connection = connections'[j].connection => i = j
        /\ \A h \in 1..Len(sessions') :
               (\A i \in DOMAIN connections' : connections'[i].connection # h)
                   => sessions'[h] = "closed"
        /\ ClosingStep =>
               \A h \in ClosedBy(call') :
                   /\ sessions[h] = "open"
                   /\ h \notin ClosedBy(call) ]_vars

\* C13: cleanup_stale_connections returns the number of records it removed,
\* the size of the registry before the call minus its size after it, also
\* when the close of a stale session raises, and it leaves the records whose
\* idle time does not exceed the threshold as they were.
C13_CleanupCountsRemoved ==
    [][ (call'.op = "cleanup" /\ now' = now) =>
        \A max_idle_time \in IdleThresholds :
        \A raising \in SUBSET DOMAIN connections :
            cleanup_stale_connections(max_idle_time, raising)
            => /\ call'.count = Live - Live'
               /\ \A i \in DOMAIN connections :
                      now - connections[i].last_used <= max_idle_time
                          => /\ i \in DOMAIN connections'
                             /\ connections'[i] = connections[i] ]_vars

\* C14: when cleanup_stale_connections has returned, none of the records it
\* found idle for longer than the threshold is in the registry, and an
\* execute_query that follows it with the id of a record that is gone raises
\* the invalid-connection error without a driver call.
C14_StaleRecordsEvicted ==
    [][ /\ (call'.op = "cleanup" /\ now' = now) =>
               \A i \in DOMAIN connections' :
                   connections'[i].connection \notin ClosedBy(call')
        /\ (call.op = "cleanup" /\ call'.op = "execute") =>
               /\ Known(call'.id) =>
                      connections[call'.id].connection \notin ClosedBy(call)
               /\ ~Known(call'.id) =>
                      /\ call'.result = "invalid_connection_id"
                      /\ call'.engine = <<>> ]_vars

\* C16: an execute_query whose driver call raises leaves the statement
\* counter and the last-used time of the record as they were, and one whose
\* driver calls all return adds one to the counter and sets the last-used
\* time.
C16_AccountingOnSuccessOnly ==
    [][ (call'.op = "execute" /\ now' = now /\ Known(call'.id)) =>
            /\ call'.result = "failure" => connections' = connections
            /\ call'.result = "success" =>
                   connections' =
                       [connections EXCEPT
                            ![call'.id].last_used = now,
                            ![call'.id].query_count = @ + 1] ]_vars

-----------------------------------------------------------------------------
(* Properties of the execute_query tool and of execute_query, checked      *)
(* under ToolSpec                                                          *)

\* C15 as claimed: an execute with an id that has no record fails with the
\* invalid-connection error, makes no driver call and leaves the registry as
\* it was.
C15_UnknownIdFails ==
    [][ (call'.op = "execute" /\ ~Known(call'.id)) =>
            /\ call'.result = "invalid_connection_id"
            /\ call'.engine = <<>>
            /\ connections' = connections
            /\ sessions' = sessions ]_vars

\* C15: an execute with an id that has no record makes no driver call and
\* leaves the registry and the sessions as they were; execute_query raises
\* the invalid-connection error for it whether is_safe_query approves the
\* statement or not, and so does the execute_query tool unless
\* validate_query_params rejects the call, which is reported first.
C15_UnknownIdFailsAfterParams ==
    [][ (call'.op = "execute" /\ ~Known(call'.id)) =>
            /\ call'.engine = <<>>
            /\ connections' = connections
            /\ sessions' = sessions
            /\ \A q \in ExecStatements : \A schema \in SchemaHints :
                   execute_query(call'.id, q, schema, 0)
                       => call'.result = "invalid_connection_id"
            /\ \A c \in ToolCalls :
                   tool_execute_query(call'.id, c, 0)
                       => call'.result =
                              IF query_validator[c] = "ok"
                              THEN "invalid_connection_id"
                              ELSE "invalid_query_params" ]_vars

\* an id whose record was disconnected is turned away
C15_Witness ==
    /\ call.op = "execute"
    /\ call.result = "invalid_connection_id"
    /\ call.id # "0"
    /\ ~Known(call.id)
    /\ \E h \in 1..Len(sessions) : sessions[h] = "closed"

\* the statements passed to execute_query, by the tool or directly, that
\* is_safe_query approves
ApprovedStatements ==
    { q \in ExecStatements \cup LimitedStatements : is_safe_query(q) }

\* C17: an execute_query whose driver call raises returns a failure result,
\* and the record of the connection stays in the registry with its session,
\* which stays open; an execute_query that follows it on the same id with a
\* statement that is_safe_query approves is passed to the engine adapter of
\* the record again (for MongoDB, a statement other than SHOW COLLECTIONS is
\* answered by the adapter without a driver call).
C17_EngineFailureKeepsSession ==
    [][ (call'.op = "execute" /\ Known(call'.id)) =>
            /\ call'.result = "failure" =>
                   /\ DOMAIN connections' = DOMAIN connections
                   /\ connections'[call'.id].connection =
                          connections[call'.id].connection
                   /\ sessions'[connections'[call'.id].connection] = "open"
                   /\ \A i \in DOMAIN connections \ {call'.id} :
                          connections'[i] = connections[i]
            /\ (call.op = "execute" /\ call.result = "failure") =>
                   \A q \in ApprovedStatements : \A schema \in SchemaHints :
                   \A passed \in 0..2 :
                       execute_query(call.id, q, schema, passed)
                       => /\ call'.result \in {"success", "failure", "unsupported"}
                          /\ call'.result = "unsupported" =>
                                 /\ connections[call.id].db_type = "mongodb"
                                 /\ ~IsShowCollections(q)
                          /\ call'.result # "unsupported" =>
                                 /\ call'.engine # <<>>
                                 /\ \A k \in 1..Len(call'.engine) :
                                        call'.engine[k].handle =
                                            connections[call.id].connection
                          /\ call'.result = "success" =>
                                 call'.engine[Len(call'.engine)].statement = q
          ]_vars

\* the driver call of a later statement on a connection has raised, and the
\* record is in the registry with its session open
C17_Witness ==
    /\ call.op = "execute"
    /\ call.result = "failure"
    /\ Known(call.id)
    /\ connections[call.id].query_count = MaxToolQueries
    /\ sessions[connections[call.id].connection] = "open"

\* the statement has a LIMIT clause
HasLimitClause(q) == HasWord(TRUE, q.text, "LIMIT")

\* the statement followed by a LIMIT clause of min(limit, 1000)
Clamped(q, limit) ==
    [q EXCEPT !.text =
         @ \o <<" ", "LIMIT", " ",
                LimitText(IF limit < HardRowLimit THEN limit ELSE HardRowLimit)>>]

\* C18: a call of the execute_query tool on a connection of an SQL engine,
\* with a statement that is_safe_query approves and that has no LIMIT clause,
\* and with a limit of 1 or more, 5000 included, reaches the driver, and the
\* statement it hands to the driver is the caller's followed by a LIMIT
\* clause of min(limit, 1000).
C18_RowLimitClamped ==
    [][ call'.op = "execute" =>
        \A id \in DOMAIN connections : \A c \in ToolCalls : \A passed \in 0..2 :
            ( /\ connections[id].db_type # "mongodb"
              /\ c.query \in ApprovedStatements
              /\ ~HasLimitClause(c.query)
              /\ c.limit >= 1
              /\ c.schema \in SchemaHints
              /\ tool_execute_query(id, c, passed) )
            => /\ call'.result \in {"success", "failure"}
               /\ call'.engine # <<>>
               /\ \A k \in 1..Len(call'.engine) :
                      call'.engine[k].statement
                          \in {Clamped(c.query, c.limit), SetSearchPath(c.schema),
                               UseSchema(c.schema)} ]_vars

C21_MongoOnlyShowCollections ==
    [][ ( /\ call'.op = "execute"
          /\ Known(call'.id)
          /\ connections[call'.id].db_type = "mongodb" ) =>
        \A q \in ApprovedStatements : \A schema \in SchemaHints :
        \A passed \in 0..2 :
            execute_query(call'.id, q, schema, passed)
            => /\ call'.id \in DOMAIN connections'
               /\ connections'[call'.id].connection =
                      connections[call'.id].connection
               /\ sessions' = sessions
               /\ IF IsShowCollections(q)
                  THEN /\ call'.result \in {"success", "failure"}
                       /\ call'.engine =
                              <<EngineCall(connections[call'.id].connection,
                                           "list_collection_names", q)>>
                  ELSE /\ call'.result = "unsupported"
                       /\ call'.engine = <<>> ]_vars

\* a MongoDB connection has answered that a statement is not supported
C21_Witness ==
    /\ call.op = "execute"
    /\ call.result = "unsupported"
    /\ Known(call.id)
    /\ connections[call.id].db_type = "mongodb"
    /\ sessions[connections[call.id].connection] = "open"

-----------------------------------------------------------------------------
(* Properties of get_security_report and of the gate on whole statements,  *)
(* checked under SafetySpec                                                 *)

\* the violation entry that get_security_report appends with each check flag
\* it clears; the report of an empty statement carries "Empty query" for its
\* only cleared flag
ViolationFor(flag) ==
    CASE flag = "starts_with_allowed_operation" ->
             \/ Violates("Query doesn't start with allowed operation")
             \/ Violates("Empty query")
      [] flag = "no_dangerous_operations" ->
             \E op \in dangerous_operations :
                 Violates("Contains dangerous operation: \\b" \o op \o "\\b")
      [] flag = "no_file_operations" -> Violates("Contains file operations")
      [] flag = "no_injection_patterns" ->
             \E i \in 1..Len(security_patterns) :
                 Violates("Security risk: " \o security_patterns[i])
      [] flag = "acceptable_nesting" -> Violates("Excessive query nesting")
      [] flag = "legitimate_metadata_access" ->
             Violates("Suspicious metadata access pattern")

\* C22: the report of every statement is unsafe exactly when its violation
\* list is non-empty, and every check flag that is false in the report has
\* its entry in the violation list.
C22_ReportEnumeratesFailures ==
    Reported =>
        /\ (~report.is_safe) <=> (report.violations # <<>>)
        /\ \A flag \in DOMAIN report.checks :
               ~report.checks[flag] => ViolationFor(flag)

\* a report with two failed checks and an entry for each
C22_Witness ==
    /\ Reported
    /\ ~report.is_safe
    /\ ~report.checks.no_dangerous_operations
    /\ ~report.checks.acceptable_nesting
    /\ Len(report.violations) >= 2

\* a UNION followed later by a reference to information_schema, in any
\* letter case, in a statement that references a metadata namespace
UnionExfiltration(q) ==
    /\ ~IsEmptyQuery(q)
    /\ _contains_metadata_access(QueryUpper(q))
    /\ UnionInfoSchema(TRUE, QueryUpper(q))

\* C23: a statement that references a metadata namespace and has the
\* UNION-exfiltration shape is rejected by is_safe_query, whatever its
\* parenthesis count.
C23_UnionExfiltrationRejected ==
    (Gated /\ UnionExfiltration(query)) => verdict = <<FALSE>>

\* INTO OUTFILE, INTO DUMPFILE or LOAD_FILE in any letter case, in a statement
\* that starts with an allowed verb
FileOperation(q) ==
    /\ ~IsEmptyQuery(q)
    /\ StartsWithAllowed(QueryUpper(q))
    /\ \/ HasWordPair(TRUE, QueryUpper(q), "into", "outfile")
       \/ HasWordPair(TRUE, QueryUpper(q), "into", "dumpfile")
       \/ HasWord(TRUE, QueryUpper(q), "load_file")

\* C24: for a statement that starts with an allowed verb and holds a file
\* operation, _contains_file_operations is true, is_safe_query rejects it and
\* get_security_report clears the no_file_operations flag.
C24_FileScanRejects ==
    ((Gated \/ Reported) /\ FileOperation(query)) =>
        /\ _contains_file_operations(QueryUpper(query))
        /\ Gated => verdict = <<FALSE>>
        /\ Reported => ~report.checks.no_file_operations

\* C27: get_security_report and is_safe_query agree on every statement: the
\* report says is_safe exactly when the gate accepts the statement.
C27_ReportAgreesWithGate ==
    Reported => (report.is_safe <=> is_safe_query(query))

\* C30: every statement that the schema tools build for a SQL engine kind
\* and a valid schema or table name is accepted by is_safe_query.
C30_TemplatesAccepted ==
    (Gated /\ query \in IntrospectionStatements) => verdict = <<TRUE>>

-----------------------------------------------------------------------------
(* Properties of the registry under concurrent callers, checked under      *)
(* ConcSpec                                                                *)

\* the database a connect request targets
Target(req) == <<req.db_type, req.host, req.database, req.database_path>>

\* the lookup step of caller c answers a connect right after the connect that
\* opened the session of the same id has returned
AnsweredAfterOpening(c) ==
    /\ At(c, "c_lookup")
    /\ ConnectLookup(c)
    /\ call.op = "connect"
    /\ call.result = "connected"
    /\ call.id = inflight[c].id

\* C28: a connect request is not answered with the id and the session that
\* were opened for a request with another target, such as another SQLite
\* file on the same host.
C28_OwnSessionPerDatabase ==
    [][ \A c \in Callers :
            ( /\ AnsweredAfterOpening(c)
              /\ Target(call.engine[1].statement) # Target(inflight[c].req) )
            => call'.result # "reused" ]_vars

\* C29: a connect request is not answered with the id of a session that the
\* driver opened with another secret than the one of the request.
C29_SecretCheckedBeforeReuse ==
    [][ \A c \in Callers :
            ( /\ AnsweredAfterOpening(c)
              /\ call.engine[1].statement.password # inflight[c].req.password )
            => call'.result # "reused" ]_vars

\* C25: when no call is in progress, every session the driver has opened and
\* that is not closed is the session of a record of the registry.
C25_NoSessionLeaked ==
    (\A c \in Callers : At(c, "idle")) =>
        \A h \in 1..Len(sessions) :
            sessions[h] = "open" =>
                \E id \in DOMAIN connections : connections[id].connection = h

\* C26: whatever disconnect and cleanup_stale_connections do at the same
\* time, execute_query finds the record it has checked the id of, and calls
\* the driver only on a session that is not closed.
C26_ExecuteOnLiveSession ==
    [][ \A c \in Callers :
            /\ (At(c, "e_read") /\ ExecuteRead(c)) => Known(inflight[c].id)
            /\ (At(c, "e_engine") /\ ExecuteEngine(c)) =>
                   sessions[inflight[c].handle] = "open" ]_vars

\* C9: in every interleaving of concurrent connect, disconnect and cleanup
\* calls the registry never holds more than max_connections records.
C9_RegistryWithinCapacity == Live <= MaxConnections

====
